---- MODULE Spec2Model ----
(***************************************************************************)
(* Rolling-metrics engine of defmeta (calculate_metrics.py): rolling       *)
(* averages, week-over-week deltas, ranks, dispersion statistics and the   *)
(* command line entry point, over the Django tables of tracker/models.py.  *)
(*                                                                         *)
(* Numbers.  Every nullable number of the program (a float, an int, or     *)
(* None) is a pair <<n, d>>: the exact rational n/d in lowest terms with   *)
(* d > 0, and None is <<0, 0>>.  Ranks are stored the same way (<<k, 1>>). *)
(* Dates are day numbers.                                                  *)
(***************************************************************************)
EXTENDS Integers, Sequences, FiniteSets, TLC

VARIABLES
    subreddits,         \* Subreddit table, in the order Subreddit.objects.all() yields it
    snapshots,          \* SubredditDailyStats table (sequence of rows)
    posts,              \* Post table (sequence of rows)
    subreddit_metrics,  \* SubredditMetrics table: set of rows, key (subreddit, date)
    global_metrics,     \* GlobalMetrics table: set of rows, key date
    metrics_dispersion, \* MetricsDispersion table: set of rows, key (date, entity_type, subreddit, metric_name)
    today,              \* date.today()
    pending,            \* the dates the loop of a running backfill_metrics has still to run
    last,               \* the last run of the command: its arguments, the computations that
                        \* raise, the dates run and completed, its exit status, and the
                        \* dates the run of the command before it completed
    call,               \* pure-function harness: the function applied and its arguments
    ret                 \* pure-function harness: the value returned

vars == <<subreddits, snapshots, posts, subreddit_metrics, global_metrics,
          metrics_dispersion, today, pending, last, call, ret>>

engine_vars == <<subreddits, snapshots, posts, subreddit_metrics, global_metrics,
                 metrics_dispersion, today, pending, last>>

-----------------------------------------------------------------------------
(* Exact arithmetic on nullable numbers *)

Null == <<0, 0>>

IsNull(v) == v[2] = 0

Abs(n) == IF n < 0 THEN -n ELSE n

RECURSIVE GCD(_, _)
GCD(a, b) == IF b = 0 THEN a ELSE GCD(b, a % b)

\* n/d in lowest terms with a positive denominator (d # 0)
Rat(n, d) ==
    LET s == IF d < 0 THEN -1 ELSE 1
        g == GCD(Abs(n), Abs(d))
    IN  <<(s * n) \div g, (s * d) \div g>>

Num(k) == <<k, 1>>

RAdd(a, b) == Rat(a[1] * b[2] + b[1] * a[2], a[2] * b[2])
RSub(a, b) == Rat(a[1] * b[2] - b[1] * a[2], a[2] * b[2])
RMul(a, b) == Rat(a[1] * b[1], a[2] * b[2])
RDiv(a, b) == Rat(a[1] * b[2], a[2] * b[1])
RLess(a, b) == a[1] * b[2] < b[1] * a[2]
RLeq(a, b) == a[1] * b[2] <= b[1] * a[2]

RECURSIVE RSum(_)
RSum(s) == IF s = << >> THEN Num(0) ELSE RAdd(Head(s), RSum(Tail(s)))

\* [v for v in values if v is not None]
NotNone(values) == SelectSeq(values, LAMBDA v : ~IsNull(v))

Range(s) == {s[i] : i \in DOMAIN s}

\* the integers of K in ascending order
RECURSIVE Ascending(_)
Ascending(K) ==
    IF K = {} THEN << >>
    ELSE LET m == CHOOSE x \in K : \A y \in K : x <= y
         IN  <<m>> \o Ascending(K \ {m})

-----------------------------------------------------------------------------
(* Names and fields *)

DC_SUBREDDIT_NAME == "washingtondc"

\* str.lower() on the names the model uses
Lower(s) ==
    CASE s = "WashingtonDC" -> "washingtondc"
      [] OTHER -> s

\* the comparison without .lower()
IsDC_case_sensitive(name) == name = DC_SUBREDDIT_NAME

\* sub.name.lower() == DC_SUBREDDIT_NAME.lower()
IsDC(name) == Lower(name) = Lower(DC_SUBREDDIT_NAME)

METRIC_NAMES == <<"subscribers_7day", "subscribers_30day",
                  "posts_7day", "posts_30day",
                  "score_7day", "score_30day",
                  "comments_7day", "comments_30day",
                  "upvotes_7day", "upvotes_30day">>

\* metric_to_field: metric name -> SubredditMetrics field
metric_to_field ==
    [m \in Range(METRIC_NAMES) |->
        CASE m = "subscribers_7day"  -> "subscribers_7day_avg"
          [] m = "subscribers_30day" -> "subscribers_30day_avg"
          [] m = "posts_7day"        -> "posts_7day_avg"
          [] m = "posts_30day"       -> "posts_30day_avg"
          [] m = "score_7day"        -> "score_7day_avg"
          [] m = "score_30day"       -> "score_30day_avg"
          [] m = "comments_7day"     -> "comments_7day_avg"
          [] m = "comments_30day"    -> "comments_30day_avg"
          [] m = "upvotes_7day"      -> "upvotes_7day_avg"
          [] m = "upvotes_30day"     -> "upvotes_30day_avg"]

\* rank_fields: (7-day average field, rank field) pairs
rank_fields == <<
    <<"subscribers_7day_avg", "subscribers_7day_rank">>,
    <<"posts_7day_avg", "posts_7day_rank">>,
    <<"score_7day_avg", "score_7day_rank">>,
    <<"comments_7day_avg", "comments_7day_rank">>,
    <<"upvotes_7day_avg", "upvotes_7day_rank">> >>

\* (7-day average field, week-over-week field) pairs of both metrics tables
wow_fields == <<
    <<"subscribers_7day_avg", "subscribers_wow_change">>,
    <<"posts_7day_avg", "posts_wow_change">>,
    <<"score_7day_avg", "score_wow_change">>,
    <<"comments_7day_avg", "comments_wow_change">>,
    <<"upvotes_7day_avg", "upvotes_wow_change">> >>

AvgFields == {metric_to_field[m] : m \in Range(METRIC_NAMES)}
RankFields == {rank_fields[i][2] : i \in DOMAIN rank_fields}
WowFields == {wow_fields[i][2] : i \in DOMAIN wow_fields}

-----------------------------------------------------------------------------
(* calculate_wow_change *)

calculate_wow_change_no_zero_guard(current_value, previous_value) ==
    IF IsNull(current_value) \/ IsNull(previous_value) THEN Null
    ELSE IF previous_value[1] = 0 THEN Num(0)
    ELSE RMul(RDiv(RSub(current_value, previous_value), previous_value), Num(100))

calculate_wow_change(current_value, previous_value) ==
    IF IsNull(current_value) \/ IsNull(previous_value) THEN Null
    ELSE IF previous_value[1] = 0 THEN Null
    ELSE RMul(RDiv(RSub(current_value, previous_value), previous_value), Num(100))

-----------------------------------------------------------------------------
(* calculate_ranks *)

\* sorted(entries, key=lambda x: x[1], reverse=True): a stable sort, so entries
\* with equal values keep their relative order
RECURSIVE InsertDesc(_, _)
InsertDesc(sorted, e) ==
    IF sorted = << >> THEN <<e>>
    ELSE IF RLess(Head(sorted)[2], e[2]) THEN <<e>> \o sorted
    ELSE <<Head(sorted)>> \o InsertDesc(Tail(sorted), e)

RECURSIVE SortDesc(_)
SortDesc(entries) ==
    IF entries = << >> THEN << >>
    ELSE InsertDesc(SortDesc(SubSeq(entries, 1, Len(entries) - 1)), entries[Len(entries)])

\* the same sort, but an entry goes before the entries of equal value
RECURSIVE InsertDescUnstable(_, _)
InsertDescUnstable(sorted, e) ==
    IF sorted = << >> THEN <<e>>
    ELSE IF RLeq(Head(sorted)[2], e[2]) THEN <<e>> \o sorted
    ELSE <<Head(sorted)>> \o InsertDescUnstable(Tail(sorted), e)

RECURSIVE SortDescUnstable(_)
SortDescUnstable(entries) ==
    IF entries = << >> THEN << >>
    ELSE InsertDescUnstable(SortDescUnstable(SubSeq(entries, 1, Len(entries) - 1)),
                            entries[Len(entries)])

\* valid_entries: (name, value) pairs without D.C. and without None values
valid_entries(subreddit_metrics_list, metric_field) ==
    LET keep == SelectSeq(subreddit_metrics_list,
                    LAMBDA e : ~IsDC(e.sub) /\ ~IsNull(e.metrics[metric_field]))
    IN  [i \in DOMAIN keep |-> <<keep[i].sub, keep[i].metrics[metric_field]>>]

\* ranks[sub.name] = rank for rank, (sub, value) in enumerate(sorted_entries, start=1)
AssignRanks(sorted_entries) ==
    [n \in {sorted_entries[i][1] : i \in DOMAIN sorted_entries} |->
        CHOOSE i \in DOMAIN sorted_entries :
            /\ sorted_entries[i][1] = n
            /\ \A j \in DOMAIN sorted_entries : sorted_entries[j][1] = n => j <= i]

\* ranks that group equal values under one rank (1, 1, 3, ...)
AssignRanksShared(sorted_entries) ==
    [n \in {sorted_entries[i][1] : i \in DOMAIN sorted_entries} |->
        LET i == CHOOSE k \in DOMAIN sorted_entries : sorted_entries[k][1] = n
        IN  1 + Cardinality({j \in DOMAIN sorted_entries :
                                RLess(sorted_entries[i][2], sorted_entries[j][2])})]

calculate_ranks_ascending(subreddit_metrics_list, metric_field) ==
    LET s == SortDesc(valid_entries(subreddit_metrics_list, metric_field))
    IN  AssignRanks([i \in DOMAIN s |-> s[Len(s) + 1 - i]])

calculate_ranks_unstable(subreddit_metrics_list, metric_field) ==
    AssignRanks(SortDescUnstable(valid_entries(subreddit_metrics_list, metric_field)))

calculate_ranks_shared(subreddit_metrics_list, metric_field) ==
    AssignRanksShared(SortDesc(valid_entries(subreddit_metrics_list, metric_field)))

calculate_ranks(subreddit_metrics_list, metric_field) ==
    AssignRanks(SortDesc(valid_entries(subreddit_metrics_list, metric_field)))

\* dict.get(name): None when the name has no rank
RankGet(ranks, name) == IF name \in DOMAIN ranks THEN Num(ranks[name]) ELSE Null

-----------------------------------------------------------------------------
(* calculate_dispersion_stats, safe_mean *)

\* sorted(values): ascending
RECURSIVE InsertAsc(_, _)
InsertAsc(sorted, v) ==
    IF sorted = << >> THEN <<v>>
    ELSE IF RLess(v, Head(sorted)) THEN <<v>> \o sorted
    ELSE <<Head(sorted)>> \o InsertAsc(Tail(sorted), v)

RECURSIVE SortAsc(_)
SortAsc(values) ==
    IF values = << >> THEN << >>
    ELSE InsertAsc(SortAsc(SubSeq(values, 1, Len(values) - 1)), values[Len(values)])

\* statistics.median: the middle element, or the mean of the two middle elements
Median(values) ==
    LET s == SortAsc(values)
        n == Len(s)
    IN  IF n % 2 = 1 THEN s[(n \div 2) + 1]
        ELSE RDiv(RAdd(s[n \div 2], s[(n \div 2) + 1]), Num(2))

Mean(values) == RDiv(RSum(values), Num(Len(values)))

\* statistics.stdev is the square root of the sample variance; the model keeps
\* the variance itself (the square of std_dev), which is exact
SampleVariance(values) ==
    LET m == Mean(values)
        sq == [i \in DOMAIN values |-> RMul(RSub(values[i], m), RSub(values[i], m))]
    IN  RDiv(RSum(sq), Num(Len(values) - 1))

\* min(values), max(values)
Min(values) == CHOOSE v \in Range(values) : \A w \in Range(values) : RLeq(v, w)
Max(values) == CHOOSE v \in Range(values) : \A w \in Range(values) : RLeq(w, v)

\* the short-list branch reading values[0] of the unfiltered list
calculate_dispersion_stats_first_raw(values) ==
    LET clean_values == NotNone(values)
        sorted_values == SortAsc(clean_values)
        n == Len(sorted_values)
    IN  IF Len(clean_values) < 2
        THEN [median    |-> IF values # << >> THEN values[1] ELSE Null,
              std_dev   |-> Null,
              min_value |-> IF values # << >> THEN values[1] ELSE Null,
              max_value |-> IF values # << >> THEN values[1] ELSE Null,
              p25       |-> Null,
              p75       |-> Null]
        ELSE [median    |-> Median(clean_values),
              std_dev   |-> SampleVariance(clean_values),
              min_value |-> Min(clean_values),
              max_value |-> Max(clean_values),
              p25       |-> sorted_values[(n \div 4) + 1],
              p75       |-> sorted_values[((n * 3) \div 4) + 1]]

\* p25 and p75 taken at each other's position
calculate_dispersion_stats_percentiles_swapped(values) ==
    LET clean_values == NotNone(values)
        sorted_values == SortAsc(clean_values)
        n == Len(sorted_values)
    IN  IF Len(clean_values) < 2
        THEN [median    |-> IF clean_values # << >> THEN clean_values[1] ELSE Null,
              std_dev   |-> Null,
              min_value |-> IF clean_values # << >> THEN clean_values[1] ELSE Null,
              max_value |-> IF clean_values # << >> THEN clean_values[1] ELSE Null,
              p25       |-> Null,
              p75       |-> Null]
        ELSE [median    |-> Median(clean_values),
              std_dev   |-> SampleVariance(clean_values),
              min_value |-> Min(clean_values),
              max_value |-> Max(clean_values),
              p25       |-> sorted_values[((n * 3) \div 4) + 1],
              p75       |-> sorted_values[(n \div 4) + 1]]

\* the percentiles read from the list as given, not from the sorted list
calculate_dispersion_stats_unsorted_percentiles(values) ==
    LET clean_values == NotNone(values)
        n == Len(clean_values)
    IN  IF Len(clean_values) < 2
        THEN [median    |-> IF clean_values # << >> THEN clean_values[1] ELSE Null,
              std_dev   |-> Null,
              min_value |-> IF clean_values # << >> THEN clean_values[1] ELSE Null,
              max_value |-> IF clean_values # << >> THEN clean_values[1] ELSE Null,
              p25       |-> Null,
              p75       |-> Null]
        ELSE [median    |-> Median(clean_values),
              std_dev   |-> SampleVariance(clean_values),
              min_value |-> Min(clean_values),
              max_value |-> Max(clean_values),
              p25       |-> clean_values[(n \div 4) + 1],
              p75       |-> clean_values[((n * 3) \div 4) + 1]]

calculate_dispersion_stats(values) ==
    LET clean_values == NotNone(values)
        sorted_values == SortAsc(clean_values)
        n == Len(sorted_values)
        p25_idx == n \div 4           \* int(n * 0.25)
        p75_idx == (n * 3) \div 4     \* int(n * 0.75)
    IN  IF Len(clean_values) < 2
        THEN [median    |-> IF clean_values # << >> THEN clean_values[1] ELSE Null,
              std_dev   |-> Null,
              min_value |-> IF clean_values # << >> THEN clean_values[1] ELSE Null,
              max_value |-> IF clean_values # << >> THEN clean_values[1] ELSE Null,
              p25       |-> Null,
              p75       |-> Null]
        ELSE [median    |-> Median(clean_values),
              std_dev   |-> SampleVariance(clean_values),
              min_value |-> Min(clean_values),
              max_value |-> Max(clean_values),
              p25       |-> sorted_values[p25_idx + 1],
              p75       |-> sorted_values[p75_idx + 1]]

\* the mean with None counted as a value of 0
safe_mean_none_as_zero(values) ==
    LET clean_values == NotNone(values)
    IN  IF clean_values = << >> THEN Null
        ELSE RDiv(RSum(clean_values), Num(Len(values)))

safe_mean(values) ==
    LET clean_values == NotNone(values)
    IN  IF clean_values = << >> THEN Null
        ELSE RDiv(RSum(clean_values), Num(Len(clean_values)))

-----------------------------------------------------------------------------
(* calculate_estimated_votes (collect_post_engagement.py, and the same code in
   backfill_post_votes_v2.py) *)

\* floor(q + 1/2), whatever the tie
RoundHalfUp(q) == (2 * q[1] + q[2]) \div (2 * q[2])

\* round(x) of python 3: the nearest integer, and of two nearest the even one
Round(q) ==
    LET f == (2 * q[1] + q[2]) \div (2 * q[2])
    IN  IF (2 * q[1] + q[2]) % (2 * q[2]) = 0 /\ f % 2 = 1 THEN f - 1 ELSE f

\* the votes rounded half up
calculate_estimated_votes_half_up(score, upvote_ratio) ==
    IF IsNull(score) \/ IsNull(upvote_ratio) \/ upvote_ratio = Rat(1, 2)
    THEN <<Null, Null>>
    ELSE LET total_votes ==
                RDiv(score, RSub(RMul(Num(2), upvote_ratio), Num(1)))
         IN  <<Num(RoundHalfUp(RMul(total_votes, upvote_ratio))),
               Num(RoundHalfUp(RMul(total_votes, RSub(Num(1), upvote_ratio))))>>

\* (estimated_upvotes, estimated_downvotes); with upvote_ratio # 0.5 the
\* division cannot raise, so the except branch is not taken
calculate_estimated_votes(score, upvote_ratio) ==
    IF IsNull(score) \/ IsNull(upvote_ratio) \/ upvote_ratio = Rat(1, 2)
    THEN <<Null, Null>>
    ELSE LET total_votes ==
                RDiv(score, RSub(RMul(Num(2), upvote_ratio), Num(1)))
             estimated_upvotes == Round(RMul(total_votes, upvote_ratio))
             estimated_downvotes ==
                Round(RMul(total_votes, RSub(Num(1), upvote_ratio)))
         IN  <<Num(estimated_upvotes), Num(estimated_downvotes)>>

-----------------------------------------------------------------------------
(* Tables *)

\* Model.objects.update_or_create(<key fields>, defaults=...), once for each of
\* rows (rows of pairwise different keys): the row with the key is replaced, or
\* the row is created
\* the table left holding the written rows only
update_or_create_replacing_table(table, key, rows) == rows

update_or_create(table, key, rows) ==
    {r \in table : \A n \in rows : \E k \in key : r[k] # n[k]} \cup rows

\* the subreddit column of a global-scope MetricsDispersion row (subreddit=None)
NoSubreddit == "None"

SubredditMetricsKey == {"subreddit", "date"}
GlobalMetricsKey == {"date"}
MetricsDispersionKey == {"date", "entity_type", "subreddit", "metric_name"}

\* the sum of the non-null values over the number of all rows
SqlAvg_over_all_rows(rows, field) ==
    LET vals == NotNone([i \in DOMAIN rows |-> rows[i][field]])
    IN  IF rows = << >> THEN Null ELSE RDiv(RSum(vals), Num(Len(rows)))

\* Avg(field) over a queryset: the mean of the non-null values, None without one
SqlAvg(rows, field) ==
    LET vals == NotNone([i \in DOMAIN rows |-> rows[i][field]])
    IN  IF vals = << >> THEN Null ELSE RDiv(RSum(vals), Num(Len(vals)))

-----------------------------------------------------------------------------
(* calculate_subreddit_rolling_stats *)

\* created_local__lte=<date> on the DateTimeField created_local: the date
\* stands for its midnight, so of the rows of that day only those stored at
\* midnight (time 0, as the collector stores a date) are within the bound
DatetimeLte(day, time, bound) == day < bound \/ (day = bound /\ time = 0)

\* created_local__gte=<date>
DatetimeGte(day, time, bound) == day >= bound

\* the window taken on the day the snapshot covers, the day before its creation
SnapshotsIn_covered_date(subreddit, start_date, end_date) ==
    SelectSeq(snapshots, LAMBDA r :
        /\ r.subreddit = subreddit
        /\ r.date_created - 1 >= start_date
        /\ r.date_created - 1 <= end_date)

\* SubredditDailyStats.objects.filter(subreddit=, date_created__date__gte=,
\* date_created__date__lte=)
SnapshotsIn(subreddit, start_date, end_date) ==
    SelectSeq(snapshots, LAMBDA r :
        /\ r.subreddit = subreddit
        /\ r.date_created >= start_date
        /\ r.date_created <= end_date)

\* the filter without engagement_collected=True
PostsIn_uncollected_too(subreddit, start_date, end_date) ==
    SelectSeq(posts, LAMBDA r :
        /\ r.subreddit = subreddit
        /\ DatetimeGte(r.created_local, r.created_local_time, start_date)
        /\ DatetimeLte(r.created_local, r.created_local_time, end_date))

\* the filter with is_removed=False added
PostsIn_not_removed(subreddit, start_date, end_date) ==
    SelectSeq(posts, LAMBDA r :
        /\ r.subreddit = subreddit
        /\ DatetimeGte(r.created_local, r.created_local_time, start_date)
        /\ DatetimeLte(r.created_local, r.created_local_time, end_date)
        /\ r.engagement_collected
        /\ ~r.is_removed)

\* Post.objects.filter(subreddit=, created_local__gte=, created_local__lte=,
\* engagement_collected=True)
PostsIn(subreddit, start_date, end_date) ==
    SelectSeq(posts, LAMBDA r :
        /\ r.subreddit = subreddit
        /\ DatetimeGte(r.created_local, r.created_local_time, start_date)
        /\ DatetimeLte(r.created_local, r.created_local_time, end_date)
        /\ r.engagement_collected)

calculate_subreddit_rolling_stats(subreddit, calc_date) ==
    LET end_date_snapshot == calc_date
        start_date_7day_snapshot == calc_date - 6
        start_date_30day_snapshot == calc_date - 29
        end_date_engagement == calc_date - 3
        start_date_7day_engagement == calc_date - 9
        start_date_30day_engagement == calc_date - 32
        snapshots_7day ==
            SnapshotsIn(subreddit, start_date_7day_snapshot, end_date_snapshot)
        snapshots_30day ==
            SnapshotsIn(subreddit, start_date_30day_snapshot, end_date_snapshot)
        posts_7day ==
            PostsIn(subreddit, start_date_7day_engagement, end_date_engagement)
        posts_30day ==
            PostsIn(subreddit, start_date_30day_engagement, end_date_engagement)
    IN  [subscribers_7day_avg  |-> SqlAvg(snapshots_7day, "subscribers_count"),
         posts_7day_avg        |-> SqlAvg(snapshots_7day, "posts_count"),
         score_7day_avg        |-> SqlAvg(posts_7day, "score"),
         comments_7day_avg     |-> SqlAvg(posts_7day, "num_comments"),
         upvotes_7day_avg      |-> SqlAvg(posts_7day, "estimated_upvotes"),
         subscribers_30day_avg |-> SqlAvg(snapshots_30day, "subscribers_count"),
         posts_30day_avg       |-> SqlAvg(snapshots_30day, "posts_count"),
         score_30day_avg       |-> SqlAvg(posts_30day, "score"),
         comments_30day_avg    |-> SqlAvg(posts_30day, "num_comments"),
         upvotes_30day_avg     |-> SqlAvg(posts_30day, "estimated_upvotes")]

-----------------------------------------------------------------------------
(* get_previous_week_metrics, and the week-over-week fields *)

\* the rows a .get(subreddit=..., date=calc_date - 7) matches
get_previous_week_metrics_latest_earlier(sm, subreddit, calc_date) ==
    {r \in sm : /\ r.subreddit = subreddit
                /\ r.date < calc_date
                /\ \A q \in sm : (q.subreddit = subreddit /\ q.date < calc_date)
                                    => q.date <= r.date}

\* the previous row is that of the day before
get_previous_week_metrics_day_before(sm, subreddit, calc_date) ==
    {r \in sm : r.subreddit = subreddit /\ r.date = calc_date - 1}

get_previous_week_metrics(sm, subreddit, calc_date) ==
    LET previous_date == calc_date - 7
    IN  {r \in sm : r.subreddit = subreddit /\ r.date = previous_date}

\* GlobalMetrics.objects.get(date=calc_date - 7)
prev_global(gm, calc_date) == {r \in gm : r.date = calc_date - 7}

\* the five *_wow_change entries, against the previous row when there is one
WowChanges(metrics, previous) ==
    [f \in WowFields |->
        LET i == CHOOSE k \in DOMAIN wow_fields : wow_fields[k][2] = f
        IN  IF previous = {} THEN Null
            ELSE calculate_wow_change(metrics[wow_fields[i][1]],
                                      (CHOOSE r \in previous : TRUE)[wow_fields[i][1]])]

-----------------------------------------------------------------------------
(* calculate_metrics_for_date *)

\* Step 1: subreddit_metrics_data, the list of (subreddit, metrics)
Step1(sm, calc_date) ==
    [i \in DOMAIN subreddits |->
        LET metrics == calculate_subreddit_rolling_stats(subreddits[i], calc_date)
            previous_metrics == get_previous_week_metrics(sm, subreddits[i], calc_date)
        IN  [sub |-> subreddits[i],
             metrics |-> metrics @@ WowChanges(metrics, previous_metrics)]]

\* Step 2: all_ranks, rank field -> ranks
Step2(subreddit_metrics_data) ==
    [f \in RankFields |->
        LET i == CHOOSE k \in DOMAIN rank_fields : rank_fields[k][2] = f
        IN  calculate_ranks(subreddit_metrics_data, rank_fields[i][1])]

\* the rank fields added to one subreddit's metrics (None for D.C.)
RankEntries(name, all_ranks) ==
    LET is_dc == IsDC(name)
    IN  [f \in RankFields |-> IF is_dc THEN Null ELSE RankGet(all_ranks[f], name)]

\* Step 3: one update_or_create per entry of subreddit_metrics_data
Step3(sm, subreddit_metrics_data, all_ranks, calc_date) ==
    update_or_create(sm, SubredditMetricsKey,
        {[subreddit |-> e.sub, date |-> calc_date]
            @@ e.metrics @@ RankEntries(e.sub, all_ranks) :
         e \in Range(subreddit_metrics_data)})

\* the metrics of all subreddits, D.C. among them
non_dc_metrics_with_dc(subreddit_metrics_data) ==
    [i \in DOMAIN subreddit_metrics_data |-> subreddit_metrics_data[i].metrics]

\* the metrics of the subreddits other than D.C.
non_dc_metrics(subreddit_metrics_data) ==
    LET keep == SelectSeq(subreddit_metrics_data, LAMBDA e : ~IsDC(e.sub))
    IN  [i \in DOMAIN keep |-> keep[i].metrics]

\* the GlobalMetrics row written whether or not there is such a subreddit
Step4_unconditional(gm, subreddit_metrics_data, calc_date) ==
    LET ndm == non_dc_metrics(subreddit_metrics_data)
        global_data ==
            [f \in AvgFields |-> safe_mean([i \in DOMAIN ndm |-> ndm[i][f]])]
            @@ [subreddits_included |-> Len(ndm)]
        row == [date |-> calc_date] @@ global_data
                    @@ WowChanges(global_data, prev_global(gm, calc_date))
    IN  update_or_create(gm, GlobalMetricsKey, {row})

\* Step 4: the GlobalMetrics row, when there is a subreddit other than D.C.
Step4(gm, subreddit_metrics_data, calc_date) ==
    LET ndm == non_dc_metrics(subreddit_metrics_data)
        global_data ==
            [f \in AvgFields |-> safe_mean([i \in DOMAIN ndm |-> ndm[i][f]])]
            @@ [subreddits_included |-> Len(ndm)]
        row == [date |-> calc_date] @@ global_data
                    @@ WowChanges(global_data, prev_global(gm, calc_date))
    IN  IF ndm # << >> THEN update_or_create(gm, GlobalMetricsKey, {row}) ELSE gm

\* Step 5, global scope: one row per metric name
Step5Global(md, subreddit_metrics_data, calc_date) ==
    LET ndm == non_dc_metrics(subreddit_metrics_data)
    IN  update_or_create(md, MetricsDispersionKey,
            {[date |-> calc_date, entity_type |-> "global",
              subreddit |-> NoSubreddit, metric_name |-> metric_name]
                @@ calculate_dispersion_stats(
                        [i \in DOMAIN ndm |-> ndm[i][metric_to_field[metric_name]]]) :
             metric_name \in Range(METRIC_NAMES)})

\* the rows of one subreddit with date in [calc_date - 6, calc_date]
\* the window ending the day before calc_date
historical_metrics_before_calc_date(sm, subreddit, calc_date) ==
    {r \in sm : /\ r.subreddit = subreddit
                /\ r.date >= calc_date - 6
                /\ r.date <= calc_date - 1}

historical_metrics(sm, subreddit, calc_date) ==
    {r \in sm : /\ r.subreddit = subreddit
                /\ r.date >= calc_date - 6
                /\ r.date <= calc_date}

\* values_list(field_name, flat=True) over the rows of the window, by date
ValuesList(hist, field_name) ==
    LET order == Ascending({r.date : r \in hist})
    IN  [i \in DOMAIN order |-> (CHOOSE r \in hist : r.date = order[i])[field_name]]

\* the rows of one subreddit, written whatever the number of rows in the window
SubredditDispersionRows_any_count(hist, subreddit, calc_date) ==
    {[date |-> calc_date, entity_type |-> "subreddit",
      subreddit |-> subreddit, metric_name |-> metric_name]
         @@ calculate_dispersion_stats(
               ValuesList(hist, metric_to_field[metric_name])) :
     metric_name \in Range(METRIC_NAMES)}

\* the rows of one subreddit: none when it has fewer than 2 rows in the window
SubredditDispersionRows(hist, subreddit, calc_date) ==
    IF Cardinality(hist) < 2 THEN {}
    ELSE {[date |-> calc_date, entity_type |-> "subreddit",
           subreddit |-> subreddit, metric_name |-> metric_name]
              @@ calculate_dispersion_stats(
                    ValuesList(hist, metric_to_field[metric_name])) :
          metric_name \in Range(METRIC_NAMES)}

\* Step 5 reading the SubredditMetrics table as it was before step 3
Step5Subreddits_before_step3(md, sm, subreddit_metrics_data, calc_date) ==
    update_or_create(md, MetricsDispersionKey,
        UNION {SubredditDispersionRows(
                    historical_metrics(subreddit_metrics, e.sub, calc_date),
                    e.sub, calc_date) :
               e \in Range(subreddit_metrics_data)})

\* Step 5, subreddit scope; sm is the SubredditMetrics table step 3 has written
Step5Subreddits(md, sm, subreddit_metrics_data, calc_date) ==
    update_or_create(md, MetricsDispersionKey,
        UNION {SubredditDispersionRows(historical_metrics(sm, e.sub, calc_date),
                                       e.sub, calc_date) :
               e \in Range(subreddit_metrics_data)})

\* calculate_metrics_for_date(calc_date), no computation raising: steps 1 to 5
\* in order, each reading what the steps before it have written
calculate_metrics_for_date(calc_date) ==
    \E subreddit_metrics_data \in {Step1(subreddit_metrics, calc_date)} :
    \E all_ranks \in {Step2(subreddit_metrics_data)} :
    \E md5 \in {Step5Global(metrics_dispersion, subreddit_metrics_data, calc_date)} :
        /\ subreddit_metrics' =
              Step3(subreddit_metrics, subreddit_metrics_data, all_ranks, calc_date)
        /\ global_metrics' = Step4(global_metrics, subreddit_metrics_data, calc_date)
        /\ metrics_dispersion' =
              Step5Subreddits(md5, subreddit_metrics', subreddit_metrics_data, calc_date)

\* raising: the (subreddit, date) computations of step 1 that raise an exception
Raises(calc_date, raising) ==
    \E i \in DOMAIN subreddits : <<subreddits[i], calc_date>> \in raising

\* The call calculate_metrics_for_date(calc_date).  The loop of step 1 has no
\* exception handler: when the computation of a subreddit raises, the exception
\* leaves the function before step 3 has written anything.
RunDate(calc_date, raising) ==
    IF Raises(calc_date, raising)
    THEN UNCHANGED <<subreddit_metrics, global_metrics, metrics_dispersion>>
    ELSE calculate_metrics_for_date(calc_date)

-----------------------------------------------------------------------------
(* main, backfill_metrics *)

\* command line arguments: kind is "flag" (--backfill), "date" (a YYYY-MM-DD
\* string, value its day), "int" (an integer literal, value its value) or
\* "junk" (any other text)
Arg(kind, value) == [kind |-> kind, value |-> value]

NotReturned == [returned |-> FALSE]

NoInvocation ==
    [args |-> << >>, raising |-> {}, ran |-> << >>, completed |-> << >>,
     exit_code |-> 0, running |-> FALSE, invoked |-> FALSE, before |-> << >>]

\* main() calling calculate_metrics_for_date(calc_date) outside any handler but
\* except ValueError: an exception ends the process with exit status 1
SingleDate(args, calc_date, raising) ==
    /\ RunDate(calc_date, raising)
    /\ pending' = << >>
    /\ last' = [args |-> args, raising |-> raising, ran |-> <<calc_date>>,
                completed |-> IF Raises(calc_date, raising) THEN << >>
                              ELSE <<calc_date>>,
                exit_code |-> IF Raises(calc_date, raising) THEN 1 ELSE 0,
                running |-> FALSE, invoked |-> TRUE, before |-> last.completed]

\* main() leaving with exit status 1 before any date is run: strptime raises
\* ValueError (sys.exit(1)), or int() raises ValueError (uncaught)
ExitOnBadArguments(args) ==
    /\ UNCHANGED <<subreddit_metrics, global_metrics, metrics_dispersion>>
    /\ pending' = << >>
    /\ last' = [args |-> args, raising |-> {}, ran |-> << >>, completed |-> << >>,
                exit_code |-> 1, running |-> FALSE, invoked |-> TRUE,
                before |-> last.completed]

\* the dates taken newest first: today, ..., today - days_back
StartBackfill_newest_first(args, days_back, raising) ==
    /\ UNCHANGED <<subreddit_metrics, global_metrics, metrics_dispersion>>
    /\ pending' = [k \in 1..(days_back + 1) |-> today - (k - 1)]
    /\ last' = [args |-> args, raising |-> raising, ran |-> << >>, completed |-> << >>,
                exit_code |-> 0, running |-> days_back >= 0, invoked |-> TRUE,
                before |-> last.completed]

\* backfill_metrics(days_back): range(days_back, -1, -1) gives the dates
\* today - days_back, ..., today; the process ends with exit status 0
StartBackfill(args, days_back, raising) ==
    /\ UNCHANGED <<subreddit_metrics, global_metrics, metrics_dispersion>>
    /\ pending' = [k \in 1..(days_back + 1) |-> today - days_back + (k - 1)]
    /\ last' = [args |-> args, raising |-> raising, ran |-> << >>, completed |-> << >>,
                exit_code |-> 0, running |-> days_back >= 0, invoked |-> TRUE,
                before |-> last.completed]

\* one run of the command: python calculate_metrics.py <args>
Main(args, raising) ==
    /\ pending = << >>
    /\ IF args = << >> THEN SingleDate(args, today, raising)
       ELSE IF args[1].kind = "flag" /\ Len(args) > 1
       THEN IF args[2].kind = "int"
            THEN StartBackfill(args, args[2].value, raising)
            ELSE ExitOnBadArguments(args)
       ELSE IF args[1].kind = "date"
            THEN SingleDate(args, args[1].value, raising)
            ELSE ExitOnBadArguments(args)
    /\ UNCHANGED <<subreddits, snapshots, posts, today, call, ret>>

\* one iteration of the loop of backfill_metrics: the call inside
\* try / except Exception, so the loop goes on whether or not it raises
BackfillStep ==
    /\ pending # << >>
    /\ RunDate(Head(pending), last.raising)
    /\ pending' = Tail(pending)
    /\ last' = [last EXCEPT
                  !.ran = Append(@, Head(pending)),
                  !.completed = IF Raises(Head(pending), last.raising) THEN @
                                ELSE Append(@, Head(pending)),
                  !.running = Tail(pending) # << >>]
    /\ UNCHANGED <<subreddits, snapshots, posts, today, call, ret>>

-----------------------------------------------------------------------------
(* The command on input tables drawn from bounded sets *)

MaxRows == 2        \* most rows of the initial input tables (snapshots and posts together)

SubredditTables ==
    {<< >>, <<"washingtondc">>, <<"texas", "WashingtonDC">>,
     <<"ohio", "WashingtonDC", "texas">>}

SnapshotProfiles ==
    {[subscribers_count |-> Num(2), posts_count |-> Num(1)],
     [subscribers_count |-> Null, posts_count |-> Num(3)]}

\* posts as the daily collector and the engagement collector leave them:
\* created_local a date (midnight), the engagement fields set when collected
PostProfiles ==
    {[created_local_time |-> 0, engagement_collected |-> TRUE, score |-> Num(6),
      num_comments |-> Num(2), estimated_upvotes |-> Num(8)],
     [created_local_time |-> 0, engagement_collected |-> FALSE, score |-> Null,
      num_comments |-> Null, estimated_upvotes |-> Null]}

\* (date, subreddit) in the order the collectors insert: by day, and within a
\* day in the order of the Subreddit table
Keys(dates, subs) ==
    [k \in 1..(Len(dates) * Len(subs)) |->
        <<dates[((k - 1) \div Len(subs)) + 1], subs[((k - 1) % Len(subs)) + 1]>>]

SnapshotTables(dates, subs, max) ==
    LET keys == Keys(dates, subs)
    IN  UNION {{[i \in DOMAIN Ascending(K) |->
                    [subreddit |-> keys[Ascending(K)[i]][2],
                     date_created |-> keys[Ascending(K)[i]][1]]
                        @@ f[Ascending(K)[i]]] : f \in [K -> SnapshotProfiles]} :
               K \in {J \in SUBSET DOMAIN keys : Cardinality(J) <= max}}

PostTablesOf(dates, subs, max, profiles) ==
    LET keys == Keys(dates, subs)
    IN  UNION {{[i \in DOMAIN Ascending(K) |->
                    [subreddit |-> keys[Ascending(K)[i]][2],
                     created_local |-> keys[Ascending(K)[i]][1]]
                        @@ f[Ascending(K)[i]]] : f \in [K -> profiles]} :
               K \in {J \in SUBSET DOMAIN keys : Cardinality(J) <= max}}

PostTables(dates, subs, max) == PostTablesOf(dates, subs, max, PostProfiles)

InitOutputs ==
    /\ subreddit_metrics = {}
    /\ global_metrics = {}
    /\ metrics_dispersion = {}
    /\ pending = << >>
    /\ last = NoInvocation
    /\ call = [fn |-> "none"]
    /\ ret = NotReturned

Init ==
    /\ today = 20
    /\ subreddits \in SubredditTables
    /\ \E n \in 0..MaxRows :
          /\ snapshots \in SnapshotTables(<<today - 7, today>>, subreddits, n)
          /\ posts \in PostTables(<<today - 10>>, subreddits, MaxRows - n)
    /\ InitOutputs

\* well-formed command lines: today, a date, a backfill
ValidArgs ==
    {<< >>, <<Arg("date", today - 7)>>, <<Arg("flag", 0), Arg("int", 1)>>}

\* the command run with well-formed arguments, no computation raising
Next ==
    \/ \E args \in ValidArgs : Main(args, {})
    \/ BackfillStep

Spec == Init /\ [][Next]_vars

-----------------------------------------------------------------------------
(* The command with any arguments, and computations that raise *)

InitFaults ==
    /\ today = 20
    /\ subreddits = <<"ohio", "WashingtonDC", "texas">>
    /\ snapshots \in SnapshotTables(<<today>>, subreddits, 1)
    /\ posts = << >>
    /\ InitOutputs

ArgsSet ==
    {<< >>, <<Arg("date", today)>>,
     <<Arg("flag", 0), Arg("int", 1)>>, <<Arg("flag", 0), Arg("int", -1)>>,
     <<Arg("junk", 0)>>, <<Arg("flag", 0)>>, <<Arg("flag", 0), Arg("junk", 0)>>}

\* the dates main(args) hands to calculate_metrics_for_date
DatesOf(args) ==
    IF args = << >> THEN {today}
    ELSE IF args[1].kind = "flag" /\ Len(args) > 1
    THEN IF args[2].kind = "int" THEN {today - i : i \in 0..args[2].value} ELSE {}
    ELSE IF args[1].kind = "date" THEN {args[1].value} ELSE {}

\* no computation raises, or the computation of one subreddit raises on one date
RaisingSets(args) ==
    {{}} \cup {{<<subreddits[i], d>>} : i \in DOMAIN subreddits, d \in DatesOf(args)}

NextFaults ==
    \/ \E args \in ArgsSet : \E raising \in RaisingSets(args) : Main(args, raising)
    \/ BackfillStep

SpecFaults == InitFaults /\ [][NextFaults]_vars

-----------------------------------------------------------------------------
(* The command run for today again after the data of D.C. changed *)

\* the values the changed rows of D.C. hold
ChangedSnapshot == [subscribers_count |-> Num(9), posts_count |-> Num(7)]
ChangedPost ==
    [created_local_time |-> 0, engagement_collected |-> TRUE, score |-> Num(9),
     num_comments |-> Num(7), estimated_upvotes |-> Num(5)]

InitCapital ==
    /\ today = 20
    /\ subreddits = <<"ohio", "WashingtonDC", "texas">>
    /\ \E n \in 0..MaxRows :
          /\ snapshots \in SnapshotTables(<<today - 7, today>>, subreddits, n)
          /\ posts \in PostTables(<<today - 10>>, subreddits, MaxRows - n)
    /\ InitOutputs

\* the collectors and the admin rewriting or deleting the snapshots and posts
\* of D.C., and with them the SubredditMetrics row of D.C. of a week before
ChangeCapitalData ==
    /\ call.fn = "none" /\ pending = << >>
    /\ \E delete \in BOOLEAN :
          /\ snapshots' =
                IF delete THEN SelectSeq(snapshots, LAMBDA r : ~IsDC(r.subreddit))
                ELSE [i \in DOMAIN snapshots |->
                        IF IsDC(snapshots[i].subreddit)
                        THEN [subreddit |-> snapshots[i].subreddit,
                              date_created |-> snapshots[i].date_created]
                                @@ ChangedSnapshot
                        ELSE snapshots[i]]
          /\ posts' =
                IF delete THEN SelectSeq(posts, LAMBDA r : ~IsDC(r.subreddit))
                ELSE [i \in DOMAIN posts |->
                        IF IsDC(posts[i].subreddit)
                        THEN [subreddit |-> posts[i].subreddit,
                              created_local |-> posts[i].created_local]
                                @@ ChangedPost
                        ELSE posts[i]]
    /\ subreddit_metrics' =
          {r \in subreddit_metrics : ~(IsDC(r.subreddit) /\ r.date = today - 7)}
    /\ call' = [fn |-> "change", after |-> last.completed]
    /\ UNCHANGED <<subreddits, global_metrics, metrics_dispersion, today, pending,
                   last, ret>>

\* the run for a week before, before the first run for today
RunWeekBefore ==
    /\ \A r \in subreddit_metrics : r.date # today
    /\ Main(<<Arg("date", today - 7)>>, {})

RunToday == Main(<< >>, {})

NextCapital == RunWeekBefore \/ RunToday \/ ChangeCapitalData

SpecCapital == InitCapital /\ [][NextCapital]_vars

-----------------------------------------------------------------------------
(* One backfill, of up to MaxDaysBack days, with computations that raise *)

MaxDaysBack == 7    \* largest day count handed to backfill_metrics

InitBackfill ==
    /\ today = 20
    /\ subreddits = <<"texas", "ohio">>
    /\ snapshots \in SnapshotTables(<<today - 7, today>>, subreddits, 2)
    /\ posts = << >>
    /\ InitOutputs

\* python calculate_metrics.py --backfill <days_back>, run once
RunBackfill ==
    /\ ~last.invoked
    /\ \E days_back \in (0 - 1)..MaxDaysBack :
          \E raising \in RaisingSets(<<Arg("flag", 0), Arg("int", days_back)>>) :
              Main(<<Arg("flag", 0), Arg("int", days_back)>>, raising)

NextBackfill == RunBackfill \/ BackfillStep

SpecBackfill == InitBackfill /\ [][NextBackfill]_vars

-----------------------------------------------------------------------------
(* The functions applied to arguments drawn from bounded sets *)

MaxLen == 3         \* longest list handed to calculate_ranks
MaxNum == 4         \* largest numerator handed to calculate_wow_change
MaxValues == 5      \* longest list handed to calculate_dispersion_stats

MaxScore == 6       \* largest score handed to calculate_estimated_votes

PureNames == {"texas", "ohio", "utah", "WashingtonDC"}
RankValues == {Null, Num(0), Num(1), Num(2)}
WowValues == {Null} \cup {Rat(n, d) : n \in (0 - MaxNum)..MaxNum, d \in {1, 2}}
DispValues == {Null} \cup {Num(k) : k \in 1..5}
VoteScores == {Null} \cup {Num(k) : k \in 0..MaxScore}
\* upvote ratios with 1 / (2 * ratio - 1) a power of 2: on these the float
\* arithmetic of the function is exact
VoteRatios ==
    {Null, Num(0), Rat(1, 4), Rat(3, 8), Rat(1, 2), Rat(5, 8), Rat(3, 4), Num(1)}

\* lists of (subreddit, metrics) as calculate_metrics_for_date builds them: one
\* entry per Subreddit row, and Subreddit.name is unique
RankLists(field) ==
    LET Entries == [sub : PureNames, metrics : [{field} -> RankValues]]
    IN  {l \in UNION {[1..n -> Entries] : n \in 0..MaxLen} :
            \A i, j \in DOMAIN l : l[i].sub = l[j].sub => i = j}


InitEngineIdle ==
    /\ subreddits = << >>
    /\ snapshots = << >>
    /\ posts = << >>
    /\ subreddit_metrics = {}
    /\ global_metrics = {}
    /\ metrics_dispersion = {}
    /\ today = 0
    /\ pending = << >>
    /\ last = NoInvocation

InitPure ==
    /\ InitEngineIdle
    /\ ret = NotReturned
    /\ \/ \E i \in DOMAIN rank_fields : \E l \in RankLists(rank_fields[i][1]) :
            call = [fn |-> "calculate_ranks", subreddit_metrics_list |-> l,
                    metric_field |-> rank_fields[i][1]]
       \/ \E c, p \in WowValues :
            call = [fn |-> "calculate_wow_change", current_value |-> c,
                    previous_value |-> p]
       \/ \E vs \in UNION {[1..n -> DispValues] : n \in 0..MaxValues} :
            call = [fn |-> "calculate_dispersion_stats", values |-> vs]
       \/ \E sc \in VoteScores, ur \in VoteRatios :
            call = [fn |-> "calculate_estimated_votes", score |-> sc,
                    upvote_ratio |-> ur]

CallRanks ==
    /\ call.fn = "calculate_ranks" /\ ~ret.returned
    /\ ret' = [returned |-> TRUE,
               value |-> calculate_ranks(call.subreddit_metrics_list, call.metric_field)]
    /\ UNCHANGED <<engine_vars, call>>

CallWow ==
    /\ call.fn = "calculate_wow_change" /\ ~ret.returned
    /\ ret' = [returned |-> TRUE,
               value |-> calculate_wow_change(call.current_value, call.previous_value)]
    /\ UNCHANGED <<engine_vars, call>>

CallDispersion ==
    /\ call.fn = "calculate_dispersion_stats" /\ ~ret.returned
    /\ ret' = [returned |-> TRUE, value |-> calculate_dispersion_stats(call.values)]
    /\ UNCHANGED <<engine_vars, call>>

CallVotes ==
    /\ call.fn = "calculate_estimated_votes" /\ ~ret.returned
    /\ ret' = [returned |-> TRUE,
               value |-> calculate_estimated_votes(call.score, call.upvote_ratio)]
    /\ UNCHANGED <<engine_vars, call>>

NextPure == CallRanks \/ CallWow \/ CallDispersion \/ CallVotes

SpecPure == InitPure /\ [][NextPure]_vars

-----------------------------------------------------------------------------
(* calculate_subreddit_rolling_stats on input tables drawn from bounded sets *)

MaxStatRows == 2    \* most rows of the input tables (snapshots and posts together)

StatsSubreddits == <<"texas", "ohio">>

\* creation days of snapshots around the edges of the windows of calc_date
StatsSnapshotDates(calc_date) ==
    <<calc_date - 30, calc_date - 29, calc_date - 7, calc_date - 6,
      calc_date, calc_date + 1>>

\* days of posts around the edges of the windows of calc_date
StatsPostDates(calc_date) ==
    <<calc_date - 33, calc_date - 32, calc_date - 10, calc_date - 9,
      calc_date - 3, calc_date - 2>>

\* posts as the collectors leave them (collected, estimated_upvotes None for an
\* upvote ratio of 0.5), as the historical import stores them (created_local
\* with a time of day), and as the admin form can leave them (engagement
\* fields set, engagement_collected not)
StatsPostProfiles ==
    {[created_local_time |-> 0, engagement_collected |-> TRUE, score |-> Num(6),
      num_comments |-> Num(2), estimated_upvotes |-> Num(8)],
     [created_local_time |-> 0, engagement_collected |-> TRUE, score |-> Num(2),
      num_comments |-> Num(4), estimated_upvotes |-> Null],
     [created_local_time |-> 1, engagement_collected |-> TRUE, score |-> Num(6),
      num_comments |-> Num(2), estimated_upvotes |-> Num(8)],
     [created_local_time |-> 0, engagement_collected |-> FALSE, score |-> Num(4),
      num_comments |-> Num(4), estimated_upvotes |-> Num(4)]}

InitStats ==
    /\ today = 20
    /\ subreddits = StatsSubreddits
    /\ \E n \in 0..MaxStatRows :
          /\ snapshots \in SnapshotTables(StatsSnapshotDates(today), subreddits, n)
          /\ posts \in PostTablesOf(StatsPostDates(today), subreddits,
                                    MaxStatRows - n, StatsPostProfiles)
    /\ subreddit_metrics = {}
    /\ global_metrics = {}
    /\ metrics_dispersion = {}
    /\ pending = << >>
    /\ last = NoInvocation
    /\ call = [fn |-> "calculate_subreddit_rolling_stats",
               subreddit |-> subreddits[1], calc_date |-> today]
    /\ ret = NotReturned

CallRollingStats ==
    /\ call.fn = "calculate_subreddit_rolling_stats" /\ ~ret.returned
    /\ ret' = [returned |-> TRUE,
               value |-> calculate_subreddit_rolling_stats(call.subreddit,
                                                           call.calc_date)]
    /\ UNCHANGED <<engine_vars, call>>

NextStats == CallRollingStats

SpecStats == InitStats /\ [][NextStats]_vars

RanksReturned == call.fn = "calculate_ranks" /\ ret.returned
WowReturned == call.fn = "calculate_wow_change" /\ ret.returned
DispersionReturned == call.fn = "calculate_dispersion_stats" /\ ret.returned

\* the entities calculate_ranks is to rank: not D.C., value not None
Ranked(l, field) ==
    {l[i].sub : i \in {k \in DOMAIN l : ~IsDC(l[k].sub) /\ ~IsNull(l[k].metrics[field])}}

ValueOf(l, field, name) ==
    LET i == CHOOSE k \in DOMAIN l : l[k].sub = name IN l[i].metrics[field]

PositionOf(l, name) == CHOOSE k \in DOMAIN l : l[k].sub = name

\* C1: calculate_ranks ranks exactly the non-capital entities with a non-null
\* value, and its ranks are a bijection between these N entities and 1..N.
C1_RanksBijection ==
    RanksReturned =>
        LET S == Ranked(call.subreddit_metrics_list, call.metric_field)
            r == ret.value
        IN  /\ DOMAIN r = S
            /\ \A a \in S : r[a] \in 1..Cardinality(S)
            /\ \A a, b \in S : r[a] = r[b] => a = b
            /\ \A k \in 1..Cardinality(S) : \E a \in S : r[a] = k

C1_Witness ==
    /\ RanksReturned
    /\ Cardinality(DOMAIN ret.value) = 2
    /\ \E i \in DOMAIN call.subreddit_metrics_list :
          IsNull(call.subreddit_metrics_list[i].metrics[call.metric_field])

\* C2: rank 1 is the highest value: of two ranked entities the one with the
\* greater value has the smaller rank.
C2_HigherValueLowerRank ==
    RanksReturned =>
        LET l == call.subreddit_metrics_list
            f == call.metric_field
            r == ret.value
        IN  \A a, b \in DOMAIN r :
                RLess(ValueOf(l, f, b), ValueOf(l, f, a)) => r[a] < r[b]

C2_Witness ==
    /\ RanksReturned
    /\ \E a, b \in DOMAIN ret.value :
          /\ RLess(ValueOf(call.subreddit_metrics_list, call.metric_field, b),
                   ValueOf(call.subreddit_metrics_list, call.metric_field, a))
          /\ PositionOf(call.subreddit_metrics_list, b)
                < PositionOf(call.subreddit_metrics_list, a)
          /\ ret.value[a] = 1

\* C3: entities with equal values get distinct ranks, in the order of their
\* positions in the input list, and consecutive: whatever is ranked between
\* two of them has the same value.
C3_TiesStableConsecutive ==
    RanksReturned =>
        LET l == call.subreddit_metrics_list
            f == call.metric_field
            r == ret.value
        IN  \A a, b \in DOMAIN r :
                (a # b /\ ValueOf(l, f, a) = ValueOf(l, f, b)) =>
                    /\ r[a] # r[b]
                    /\ (PositionOf(l, a) < PositionOf(l, b)) => r[a] < r[b]
                    /\ \A c \in DOMAIN r :
                          (r[a] < r[c] /\ r[c] < r[b]) =>
                              ValueOf(l, f, c) = ValueOf(l, f, a)

C3_Witness ==
    /\ RanksReturned
    /\ \E a, b, c \in DOMAIN ret.value :
          /\ a # b
          /\ ValueOf(call.subreddit_metrics_list, call.metric_field, a)
                = ValueOf(call.subreddit_metrics_list, call.metric_field, b)
          /\ RLess(ValueOf(call.subreddit_metrics_list, call.metric_field, a),
                   ValueOf(call.subreddit_metrics_list, call.metric_field, c))
          /\ ret.value[a] + 1 = ret.value[b]

\* C5: calculate_wow_change returns None when current is None, previous is None
\* or previous is 0, and (current - previous) / previous * 100 otherwise; so it
\* returns 0 when current = previous # 0.
C5_WowChange ==
    WowReturned =>
        LET c == call.current_value
            p == call.previous_value
        IN  /\ (IsNull(c) \/ IsNull(p) \/ p = Num(0)) => ret.value = Null
            /\ ~(IsNull(c) \/ IsNull(p) \/ p = Num(0)) =>
                  /\ ~IsNull(ret.value)
                  /\ ret.value[1] * p[1] * c[2] * p[2]
                        = 100 * ret.value[2] * (c[1] * p[2] - p[1] * c[2]) * p[2]
            /\ (c = p /\ ~IsNull(c) /\ c # Num(0)) => ret.value = Num(0)

C5_Witness ==
    /\ WowReturned
    /\ call.current_value = call.previous_value
    /\ RLess(call.current_value, Num(0))
    /\ ret.value = Num(0)

\* C10: calculate_dispersion_stats of a list without a non-null value returns
\* None in all six fields; of a list with exactly one non-null value v it
\* returns median = min_value = max_value = v and None for std_dev, p25, p75.
C10_DispersionShortList ==
    DispersionReturned =>
        LET nn == {i \in DOMAIN call.values : ~IsNull(call.values[i])}
            d == ret.value
        IN  /\ nn = {} =>
                  /\ d.median = Null /\ d.std_dev = Null /\ d.min_value = Null
                  /\ d.max_value = Null /\ d.p25 = Null /\ d.p75 = Null
            /\ Cardinality(nn) = 1 =>
                  LET v == call.values[CHOOSE i \in nn : TRUE]
                  IN  /\ d.median = v /\ d.min_value = v /\ d.max_value = v
                      /\ d.std_dev = Null /\ d.p25 = Null /\ d.p75 = Null

C10_Witness ==
    /\ DispersionReturned
    /\ Len(call.values) = 3
    /\ IsNull(call.values[1])
    /\ ~IsNull(call.values[2])
    /\ IsNull(call.values[3])
    /\ ret.value.median = call.values[2]

\* the element at 0-based position k of the ascending order of the values of
\* vals: fewer than k + 1 values are below it, at least k + 1 are not above it
OrderStat(vals, k) ==
    CHOOSE v \in Range(vals) :
        /\ Cardinality({i \in DOMAIN vals : RLess(vals[i], v)}) <= k
        /\ Cardinality({i \in DOMAIN vals : RLeq(vals[i], v)}) > k

\* C11: of a list with n >= 2 non-null values calculate_dispersion_stats
\* returns p25 = S[floor(n * 0.25)] and p75 = S[floor(n * 0.75)] of the ascending
\* order S (0-based), min_value = S[0], max_value = S[n - 1], and as median the
\* middle element of S or the mean of its two middle elements; of [1,2,3,4,5]
\* it returns median 3, min 1, max 5, p25 2, p75 4.
C11_DispersionLongList ==
    DispersionReturned =>
        LET vals == SelectSeq(call.values, LAMBDA v : ~IsNull(v))
            n == Len(vals)
            d == ret.value
        IN  /\ n >= 2 =>
                  /\ d.p25 = OrderStat(vals, n \div 4)
                  /\ d.p75 = OrderStat(vals, (3 * n) \div 4)
                  /\ d.min_value = OrderStat(vals, 0)
                  /\ d.max_value = OrderStat(vals, n - 1)
                  /\ d.median =
                        IF n % 2 = 1 THEN OrderStat(vals, n \div 2)
                        ELSE RDiv(RAdd(OrderStat(vals, (n \div 2) - 1),
                                       OrderStat(vals, n \div 2)), Num(2))
            /\ call.values = <<Num(1), Num(2), Num(3), Num(4), Num(5)>> =>
                  /\ d.median = Num(3) /\ d.min_value = Num(1) /\ d.max_value = Num(5)
                  /\ d.p25 = Num(2) /\ d.p75 = Num(4)

C11_Witness ==
    /\ DispersionReturned
    /\ call.values = <<Num(5), Null, Num(1), Num(4), Num(2)>>
    /\ ret.value.p25 = Num(2) /\ ret.value.p75 = Num(5)
    /\ ret.value.median = Rat(3, 1) /\ ret.value.min_value = Num(1)

StatsReturned == call.fn = "calculate_subreddit_rolling_stats" /\ ret.returned

\* the sum of a field over the rows at the positions J
RECURSIVE SumOver(_, _, _)
SumOver(rows, J, field) ==
    IF J = {} THEN Num(0)
    ELSE LET i == CHOOSE k \in J : TRUE
         IN  RAdd(rows[i][field], SumOver(rows, J \ {i}, field))

\* the arithmetic mean of a field over those of the rows at the positions I
\* that have a value; None when none has
MeanOver(rows, I, field) ==
    LET J == {i \in I : ~IsNull(rows[i][field])}
    IN  IF J = {} THEN Null ELSE RDiv(SumOver(rows, J, field), Num(Cardinality(J)))

\* the snapshots of entity e created on a day in [lo, hi]
CreatedIn(e, lo, hi) ==
    {i \in DOMAIN snapshots :
        /\ snapshots[i].subreddit = e
        /\ lo <= snapshots[i].date_created /\ snapshots[i].date_created <= hi}

\* the snapshots of entity e covering a day in [lo, hi]: created the day after
CoveringIn(e, lo, hi) ==
    {i \in DOMAIN snapshots :
        /\ snapshots[i].subreddit = e
        /\ lo <= snapshots[i].date_created - 1
        /\ snapshots[i].date_created - 1 <= hi}

\* C12 as stated: the 7-day (30-day) subscriber and post averages of entity E
\* for date D are taken over exactly the snapshots of E whose covered date, the
\* day before their creation date, lies in [D-6, D] ([D-29, D]).
C12_CoveredDateWindow ==
    StatsReturned =>
        LET e == call.subreddit
            d == call.calc_date
        IN  /\ ret.value.subscribers_7day_avg
                  = MeanOver(snapshots, CoveringIn(e, d - 6, d), "subscribers_count")
            /\ ret.value.posts_7day_avg
                  = MeanOver(snapshots, CoveringIn(e, d - 6, d), "posts_count")
            /\ ret.value.subscribers_30day_avg
                  = MeanOver(snapshots, CoveringIn(e, d - 29, d), "subscribers_count")
            /\ ret.value.posts_30day_avg
                  = MeanOver(snapshots, CoveringIn(e, d - 29, d), "posts_count")

\* C12, amended: the 7-day (30-day) subscriber and post averages of entity E
\* for date D are taken over exactly the snapshots of E whose creation date
\* lies in [D-6, D] ([D-29, D]), that is whose covered date lies in
\* [D-7, D-1] ([D-30, D-1]); a snapshot created outside never contributes.
C12_CreationDateWindow ==
    StatsReturned =>
        LET e == call.subreddit
            d == call.calc_date
        IN  /\ ret.value.subscribers_7day_avg
                  = MeanOver(snapshots, CreatedIn(e, d - 6, d), "subscribers_count")
            /\ ret.value.posts_7day_avg
                  = MeanOver(snapshots, CreatedIn(e, d - 6, d), "posts_count")
            /\ ret.value.subscribers_30day_avg
                  = MeanOver(snapshots, CreatedIn(e, d - 29, d), "subscribers_count")
            /\ ret.value.posts_30day_avg
                  = MeanOver(snapshots, CreatedIn(e, d - 29, d), "posts_count")

C12_Witness ==
    /\ StatsReturned
    /\ \E i, j \in DOMAIN snapshots :
          /\ snapshots[i].subreddit = call.subreddit
          /\ snapshots[j].subreddit = call.subreddit
          /\ snapshots[i].date_created = call.calc_date - 6
          /\ snapshots[j].date_created = call.calc_date + 1
          /\ snapshots[i].posts_count # snapshots[j].posts_count
          /\ ret.value.posts_7day_avg = snapshots[i].posts_count
          /\ ret.value.posts_30day_avg = snapshots[i].posts_count

\* the collected posts of entity e whose created_local lies between the
\* midnight of day lo and the midnight of day hi (half days: 2 * day + time)
CollectedIn(e, lo, hi) ==
    {i \in DOMAIN posts :
        /\ posts[i].subreddit = e
        /\ posts[i].engagement_collected
        /\ 2 * lo <= 2 * posts[i].created_local + posts[i].created_local_time
        /\ 2 * posts[i].created_local + posts[i].created_local_time <= 2 * hi}

StatsAverages(e, d) ==
    {[avg |-> "subscribers_7day_avg", rows |-> snapshots,
      window |-> CreatedIn(e, d - 6, d), field |-> "subscribers_count"],
     [avg |-> "posts_7day_avg", rows |-> snapshots,
      window |-> CreatedIn(e, d - 6, d), field |-> "posts_count"],
     [avg |-> "subscribers_30day_avg", rows |-> snapshots,
      window |-> CreatedIn(e, d - 29, d), field |-> "subscribers_count"],
     [avg |-> "posts_30day_avg", rows |-> snapshots,
      window |-> CreatedIn(e, d - 29, d), field |-> "posts_count"],
     [avg |-> "score_7day_avg", rows |-> posts,
      window |-> CollectedIn(e, d - 9, d - 3), field |-> "score"],
     [avg |-> "comments_7day_avg", rows |-> posts,
      window |-> CollectedIn(e, d - 9, d - 3), field |-> "num_comments"],
     [avg |-> "upvotes_7day_avg", rows |-> posts,
      window |-> CollectedIn(e, d - 9, d - 3), field |-> "estimated_upvotes"],
     [avg |-> "score_30day_avg", rows |-> posts,
      window |-> CollectedIn(e, d - 32, d - 3), field |-> "score"],
     [avg |-> "comments_30day_avg", rows |-> posts,
      window |-> CollectedIn(e, d - 32, d - 3), field |-> "num_comments"],
     [avg |-> "upvotes_30day_avg", rows |-> posts,
      window |-> CollectedIn(e, d - 32, d - 3), field |-> "estimated_upvotes"]}

\* C14: each of the ten rolling averages is the sum of the field over the
\* windowed rows that have a value, divided by the number of these rows (rows
\* without a value count in neither), and is None when no windowed row has a
\* value, also when the entity has no row at all.
C14_NullsInNeitherSumNorCount ==
    StatsReturned =>
        \A t \in StatsAverages(call.subreddit, call.calc_date) :
            LET J == {i \in t.window : ~IsNull(t.rows[i][t.field])}
                sum == SumOver(t.rows, J, t.field)
                avg == ret.value[t.avg]
            IN  /\ J = {} => avg = Null
                /\ J # {} =>
                      /\ ~IsNull(avg)
                      /\ avg[1] * Cardinality(J) * sum[2] = sum[1] * avg[2]

C14_Witness ==
    /\ StatsReturned
    /\ \E i, j \in CreatedIn(call.subreddit, call.calc_date - 6, call.calc_date) :
          /\ IsNull(snapshots[i].subscribers_count)
          /\ ret.value.subscribers_7day_avg = snapshots[j].subscribers_count
          /\ snapshots[j].subscribers_count = Num(2)
          /\ ret.value.posts_7day_avg = Num(2)
    /\ IsNull(ret.value.score_7day_avg)

-----------------------------------------------------------------------------
(* A backfill over three dates, after a run for the date a week before today
   or without one *)

BackfillThreeDays == <<Arg("flag", 0), Arg("int", 2)>>

RunWeekBeforeBackfill ==
    /\ ~last.invoked
    /\ Main(<<Arg("date", today - 7)>>, {})

RunBackfillThreeDays ==
    /\ last.args # BackfillThreeDays
    /\ Main(BackfillThreeDays, {})

NextThreeDays == RunWeekBeforeBackfill \/ RunBackfillThreeDays \/ BackfillStep

SpecThreeDays == Init /\ [][NextThreeDays]_vars

-----------------------------------------------------------------------------
(* daily_snapshot.py: collect_daily_snapshot, run day after day.  Days stand
   for dates in one time zone; a post's created_local stands for the local
   day its created_utc falls on; total_estimated_downvotes, summed like
   total_estimated_upvotes, is left out *)

MaxSnapshotRows == 3    \* most SubredditDailyStats rows
MaxSnapshotDays == 1    \* days the clock advances

FirstDay == 20

NoTestSubreddit == ""

\* the loop over all_subreddits; stats[name] is the subscribers_count the
\* Reddit API gives (None when the request fails).  get_or_create looks for
\* one row of the subreddit created on target_date; the row it creates is
\* stamped with the current day (auto_now_add); more than one row found
\* raises MultipleObjectsReturned, which ends the run
RECURSIVE SnapshotLoop(_, _, _, _, _)
SnapshotLoop(table, all_subreddits, target_date, query_date, stats) ==
    IF all_subreddits = << >> THEN [snapshots |-> table, raised |-> FALSE]
    ELSE
    LET subreddit == Head(all_subreddits)
        subscribers == stats[subreddit]
        counted == SelectSeq(posts, LAMBDA p :
                      p.subreddit = subreddit /\ p.created_local = query_date)
        post_count == Len(counted)
        fields == [subscribers_count |-> subscribers,
                   posts_count |-> Num(post_count),
                   total_estimated_upvotes |->
                       RSum(NotNone([i \in DOMAIN counted |-> counted[i].estimated_upvotes])),
                   total_comments |->
                       RSum(NotNone([i \in DOMAIN counted |-> counted[i].num_comments]))]
        found == {i \in DOMAIN table : /\ table[i].subreddit = subreddit
                                       /\ table[i].date_created = target_date}
    IN  IF IsNull(subscribers) /\ post_count = 0
        THEN SnapshotLoop(table, Tail(all_subreddits), target_date, query_date, stats)
        ELSE IF found = {}
        THEN SnapshotLoop(
                Append(table, [subreddit |-> subreddit, date_created |-> today] @@ fields),
                Tail(all_subreddits), target_date, query_date, stats)
        ELSE IF Cardinality(found) = 1
        THEN SnapshotLoop(
                [table EXCEPT ![CHOOSE i \in found : TRUE] =
                    [subreddit |-> subreddit, date_created |-> @.date_created] @@ fields],
                Tail(all_subreddits), target_date, query_date, stats)
        ELSE [snapshots |-> table, raised |-> TRUE]

\* collect_daily_snapshot(test_mode, test_date, test_subreddit): test_date is
\* Arg("none", 0), Arg("junk", 0) or Arg("date", day)
collect_daily_snapshot(test_mode, test_date, test_subreddit, stats) ==
    LET dated == test_mode /\ test_date.kind # "none"
        target_date == IF dated THEN test_date.value ELSE today
        query_date == IF dated THEN target_date - 1 ELSE today - 1
        filtered == test_mode /\ test_subreddit # NoTestSubreddit
        all_subreddits ==
            IF filtered
            THEN SelectSeq(subreddits, LAMBDA name : name = test_subreddit)
            ELSE subreddits
    IN  /\ Len(snapshots) + Len(subreddits) <= MaxSnapshotRows
        /\ call' = [fn |-> "collect_daily_snapshot", test_mode |-> test_mode,
                    test_date |-> test_date, test_subreddit |-> test_subreddit]
        /\ IF (dated /\ test_date.kind = "junk") \/ (filtered /\ all_subreddits = << >>)
           THEN /\ snapshots' = snapshots
                /\ ret' = [returned |-> TRUE]
           ELSE \E result \in {SnapshotLoop(snapshots, all_subreddits, target_date,
                                            query_date, stats)} :
                   /\ snapshots' = result.snapshots
                   /\ ret' = [returned |-> ~result.raised]
        /\ UNCHANGED <<subreddits, posts, subreddit_metrics, global_metrics,
                       metrics_dispersion, today, pending, last>>

\* the next day begins
NextDay(last_day) ==
    /\ today < last_day
    /\ today' = today + 1
    /\ UNCHANGED <<subreddits, snapshots, posts, subreddit_metrics, global_metrics,
                   metrics_dispersion, pending, last, call, ret>>

InitSnapshot ==
    /\ today = FirstDay
    /\ subreddits = <<"texas", "ohio">>
    /\ snapshots = << >>
    /\ posts \in PostTables(<<today - 1>>, <<"texas">>, 1)
    /\ InitOutputs

\* python daily_snapshot.py
SnapshotNormalMode(stats) ==
    collect_daily_snapshot(FALSE, Arg("none", 0), NoTestSubreddit, stats)

\* python daily_snapshot.py test <date> [<subreddit>]
SnapshotTestMode(stats) ==
    \E test_date \in {Arg("junk", 0)}
                        \cup {Arg("date", d) : d \in (FirstDay - 1)..(FirstDay + 1)} :
    \E test_subreddit \in {NoTestSubreddit, "texas", "utah"} :
        collect_daily_snapshot(TRUE, test_date, test_subreddit, stats)

NextSnapshot ==
    \/ \E stats \in [Range(subreddits) -> {Null, Num(2)}] : SnapshotNormalMode(stats)
    \/ \E stats \in [Range(subreddits) -> {Null, Num(2)}] : SnapshotTestMode(stats)
    \/ NextDay(FirstDay + MaxSnapshotDays)

SpecSnapshot == InitSnapshot /\ [][NextSnapshot]_vars

-----------------------------------------------------------------------------
(* collect_post_engagement.py and backfill_post_votes_v2.py, run day after
   day, and the rolling averages computed from the posts they leave.  The
   posts are in the order of created_utc *)

MaxPosts == 2             \* most Post rows
MaxEngagementDays == 1    \* days the clock advances

\* what reading a submission gives: its values ("ok"), an exception of the
\* read of submission.score because the post is gone ("removed") or for
\* another reason, such as a failed request ("fetch_error"), or values and
\* then an exception of every post.save() ("save_error")
Fetched(kind, score, upvote_ratio, num_comments) ==
    [kind |-> kind, score |-> score, upvote_ratio |-> upvote_ratio,
     num_comments |-> num_comments]

NotFetched == Fetched("none", Null, Null, Null)

Fetches ==
    {Fetched("ok", Num(6), Rat(3, 4), Num(2)),
     Fetched("ok", Num(3), Rat(1, 4), Num(0)),
     Fetched("ok", Num(4), Rat(1, 2), Num(1)),
     Fetched("removed", Null, Null, Null),
     Fetched("fetch_error", Null, Null, Null),
     Fetched("save_error", Num(6), Rat(3, 4), Num(2))}

\* the selection by the day alone, collected or not
posts_to_update_collected_too(target_date) ==
    {i \in DOMAIN posts : /\ posts[i].created_local = target_date
                          /\ posts[i].created_local_time = 0}

\* Post.objects.filter(engagement_collected=False, created_local=target_date):
\* the date compared with the DateTimeField is the midnight of that day
posts_to_update(target_date) ==
    {i \in DOMAIN posts : /\ ~posts[i].engagement_collected
                          /\ posts[i].created_local = target_date
                          /\ posts[i].created_local_time = 0}

\* the body of the loop for one post: the inner try, the bare except that
\* takes any exception of it for a removal, and the outer except Exception
\* that the exception of the save in the bare except reaches
CollectPost(post, fetch) ==
    IF fetch.kind = "ok"
    THEN LET est == calculate_estimated_votes(fetch.score, fetch.upvote_ratio)
         IN  [post EXCEPT !.score = fetch.score,
                          !.upvote_ratio = fetch.upvote_ratio,
                          !.num_comments = fetch.num_comments,
                          !.estimated_upvotes = est[1],
                          !.estimated_downvotes = est[2],
                          !.engagement_collected = TRUE]
    ELSE IF fetch.kind \in {"removed", "fetch_error"}
    THEN [post EXCEPT !.is_removed = TRUE,
                      !.engagement_collected = TRUE,
                      !.score = Num(0),
                      !.num_comments = Num(0),
                      !.estimated_upvotes = Num(0),
                      !.estimated_downvotes = Num(0)]
    ELSE post

\* one run of collect_post_engagement.py
collect_engagement_for_three_day_old_posts ==
    LET target_date == today - 3
    IN  \E fetched \in [DOMAIN posts -> Fetches \cup {NotFetched}] :
          /\ \A i \in DOMAIN posts :
                fetched[i] # NotFetched <=> i \in posts_to_update(target_date)
          /\ posts' = [i \in DOMAIN posts |-> IF fetched[i] # NotFetched
                                               THEN CollectPost(posts[i], fetched[i])
                                               ELSE posts[i]]
          /\ call' = [fn |-> "collect_engagement_for_three_day_old_posts",
                      target_date |-> target_date, fetched |-> fetched]
          /\ ret' = [returned |-> TRUE,
                     value |-> Cardinality({i \in DOMAIN posts :
                                   fetched[i].kind \in {"ok", "removed", "fetch_error"}})]
          /\ UNCHANGED <<subreddits, snapshots, subreddit_metrics, global_metrics,
                         metrics_dispersion, today, pending, last>>

\* one run of backfill_post_votes_v2.py
backfill_post_votes ==
    /\ posts' =
          [i \in DOMAIN posts |->
              LET post == posts[i]
                  est == calculate_estimated_votes(post.score, post.upvote_ratio)
              IN  IF IsNull(post.score) \/ IsNull(post.upvote_ratio)
                     \/ post.upvote_ratio = Rat(1, 2)
                  THEN post
                  ELSE IF \/ ~IsNull(post.estimated_upvotes)
                             /\ RLess(Num(0), post.estimated_upvotes)
                          \/ ~IsNull(post.estimated_downvotes)
                             /\ RLess(Num(0), post.estimated_downvotes)
                  THEN post
                  ELSE IF ~IsNull(est[1]) /\ ~IsNull(est[2])
                  THEN [post EXCEPT !.estimated_upvotes = est[1],
                                    !.estimated_downvotes = est[2]]
                  ELSE post]
    /\ call' = [fn |-> "backfill_post_votes"]
    /\ ret' = [returned |-> TRUE]
    /\ UNCHANGED <<subreddits, snapshots, subreddit_metrics, global_metrics,
                   metrics_dispersion, today, pending, last>>

\* calculate_subreddit_rolling_stats called for today or a week later
RollingStatsOfPosts ==
    \E subreddit \in Range(subreddits) :
    \E calc_date \in {today, today + 7} :
        /\ call' = [fn |-> "calculate_subreddit_rolling_stats",
                    subreddit |-> subreddit, calc_date |-> calc_date]
        /\ ret' = [returned |-> TRUE,
                   value |-> calculate_subreddit_rolling_stats(subreddit, calc_date)]
        /\ UNCHANGED engine_vars

\* posts as daily_posts_collector.py creates them, as
\* populate_historical_posts.py does (created_local with a time of day), and
\* as backfill_post_engagement.py leaves them (collected, no estimates)
EngagementPostProfiles ==
    {[created_local_time |-> 0, engagement_collected |-> FALSE, score |-> Null,
      upvote_ratio |-> Null, num_comments |-> Null, estimated_upvotes |-> Null,
      estimated_downvotes |-> Null, is_removed |-> FALSE],
     [created_local_time |-> 1, engagement_collected |-> FALSE, score |-> Null,
      upvote_ratio |-> Null, num_comments |-> Null, estimated_upvotes |-> Null,
      estimated_downvotes |-> Null, is_removed |-> FALSE],
     [created_local_time |-> 0, engagement_collected |-> TRUE, score |-> Num(6),
      upvote_ratio |-> Rat(3, 4), num_comments |-> Num(2), estimated_upvotes |-> Null,
      estimated_downvotes |-> Null, is_removed |-> FALSE]}

InitEngagement ==
    /\ today = FirstDay
    /\ subreddits = <<"texas">>
    /\ snapshots = << >>
    /\ posts \in PostTablesOf(<<today - 3, today - 2>>, subreddits, MaxPosts,
                              EngagementPostProfiles)
    /\ InitOutputs

NextEngagement ==
    \/ collect_engagement_for_three_day_old_posts
    \/ backfill_post_votes
    \/ RollingStatsOfPosts
    \/ NextDay(FirstDay + MaxEngagementDays)

SpecEngagement == InitEngagement /\ [][NextEngagement]_vars

-----------------------------------------------------------------------------
(* calculate_metrics_for_date statement by statement: call.pc is the step the
   run is at (1 the loop of step 1, 2 the ranks, 3 the loop of step 3,
   4 GlobalMetrics, 5 global dispersion, 6 subreddit dispersion, 7 returned),
   call.i the index of the loop, ret the locals subreddit_metrics_data and
   all_ranks *)

InRun == call.fn = "calculate_metrics_for_date" /\ ~ret.returned

\* the function entered for calc_date, a date not run before
EnterRun(calc_date) ==
    /\ call.fn = "none" \/ ret.returned
    /\ \A k \in DOMAIN last.ran : last.ran[k] # calc_date
    /\ call' = [fn |-> "calculate_metrics_for_date", calc_date |-> calc_date,
                pc |-> IF subreddits = << >> THEN 2 ELSE 1, i |-> 1]
    /\ ret' = [returned |-> FALSE, subreddit_metrics_data |-> << >>,
               all_ranks |-> << >>]
    /\ last' = [last EXCEPT !.ran = Append(@, calc_date), !.invoked = TRUE]
    /\ UNCHANGED <<subreddits, snapshots, posts, subreddit_metrics, global_metrics,
                   metrics_dispersion, today, pending>>

\* the iteration of step 1 saving its row at once, ranked among the entries so far
ComputeSubreddit_and_save ==
    /\ InRun /\ call.pc = 1
    /\ \E entry \in {Step1(subreddit_metrics, call.calc_date)[call.i]} :
          /\ ret' = [ret EXCEPT !.subreddit_metrics_data = Append(@, entry)]
          /\ subreddit_metrics' =
                Step3(subreddit_metrics, <<entry>>,
                      Step2(Append(ret.subreddit_metrics_data, entry)), call.calc_date)
    /\ call' = [call EXCEPT !.i = @ + 1,
                            !.pc = IF call.i = Len(subreddits) THEN 2 ELSE 1]
    /\ UNCHANGED <<subreddits, snapshots, posts, global_metrics,
                   metrics_dispersion, today, pending, last>>

\* one iteration of the loop of step 1
ComputeSubreddit ==
    /\ InRun /\ call.pc = 1
    /\ \E entry \in {Step1(subreddit_metrics, call.calc_date)[call.i]} :
          ret' = [ret EXCEPT !.subreddit_metrics_data = Append(@, entry)]
    /\ call' = [call EXCEPT !.i = @ + 1,
                            !.pc = IF call.i = Len(subreddits) THEN 2 ELSE 1]
    /\ UNCHANGED <<subreddits, snapshots, posts, subreddit_metrics, global_metrics,
                   metrics_dispersion, today, pending, last>>

\* step 2
ComputeRanks ==
    /\ InRun /\ call.pc = 2
    /\ ret' = [ret EXCEPT !.all_ranks = Step2(ret.subreddit_metrics_data)]
    /\ call' = [call EXCEPT !.i = 1,
                            !.pc = IF ret.subreddit_metrics_data = << >> THEN 4 ELSE 3]
    /\ UNCHANGED <<subreddits, snapshots, posts, subreddit_metrics, global_metrics,
                   metrics_dispersion, today, pending, last>>

\* one iteration of the loop of step 3
SaveSubredditMetrics ==
    /\ InRun /\ call.pc = 3
    /\ subreddit_metrics' =
          Step3(subreddit_metrics, <<ret.subreddit_metrics_data[call.i]>>,
                ret.all_ranks, call.calc_date)
    /\ call' = [call EXCEPT !.i = @ + 1,
                            !.pc = IF call.i = Len(ret.subreddit_metrics_data)
                                   THEN 4 ELSE 3]
    /\ UNCHANGED <<subreddits, snapshots, posts, global_metrics,
                   metrics_dispersion, today, pending, last, ret>>

\* step 4
SaveGlobalMetrics ==
    /\ InRun /\ call.pc = 4
    /\ global_metrics' = Step4(global_metrics, ret.subreddit_metrics_data, call.calc_date)
    /\ call' = [call EXCEPT !.pc = 5]
    /\ UNCHANGED <<subreddits, snapshots, posts, subreddit_metrics,
                   metrics_dispersion, today, pending, last, ret>>

\* step 5, global scope
SaveGlobalDispersion ==
    /\ InRun /\ call.pc = 5
    /\ metrics_dispersion' =
          Step5Global(metrics_dispersion, ret.subreddit_metrics_data, call.calc_date)
    /\ call' = [call EXCEPT !.pc = 6]
    /\ UNCHANGED <<subreddits, snapshots, posts, subreddit_metrics,
                   global_metrics, today, pending, last, ret>>

\* step 5, subreddit scope, and the return
SaveSubredditDispersion ==
    /\ InRun /\ call.pc = 6
    /\ metrics_dispersion' =
          Step5Subreddits(metrics_dispersion, subreddit_metrics,
                          ret.subreddit_metrics_data, call.calc_date)
    /\ call' = [call EXCEPT !.pc = 7]
    /\ ret' = [ret EXCEPT !.returned = TRUE]
    /\ last' = [last EXCEPT !.completed = Append(@, call.calc_date)]
    /\ UNCHANGED <<subreddits, snapshots, posts, subreddit_metrics,
                   global_metrics, today, pending>>

NextPhases ==
    \/ \E calc_date \in {today - 7, today} : EnterRun(calc_date)
    \/ ComputeSubreddit
    \/ ComputeRanks
    \/ SaveSubredditMetrics
    \/ SaveGlobalMetrics
    \/ SaveGlobalDispersion
    \/ SaveSubredditDispersion

SpecPhases == Init /\ [][NextPhases]_vars

-----------------------------------------------------------------------------
(* The claims about the command *)

CapitalNames == {"washingtondc", "WashingtonDC"}

\* C4: in every SubredditMetrics row all five rank fields of the capital entity
\* (washingtondc in any letter case) are None, and the rank of a metric whose
\* 7-day average is None is None.
C4_CapitalAndNullUnranked ==
    \A r \in subreddit_metrics : \A i \in DOMAIN rank_fields :
        (r.subreddit \in CapitalNames \/ IsNull(r[rank_fields[i][1]]))
            => IsNull(r[rank_fields[i][2]])

C4_Witness ==
    \E r, q \in subreddit_metrics :
        /\ r.subreddit = "WashingtonDC" /\ q.subreddit = "texas" /\ r.date = q.date
        /\ ~IsNull(r.subscribers_7day_avg) /\ IsNull(r.subscribers_7day_rank)
        /\ q.subscribers_7day_rank = Num(1)
        /\ IsNull(q.score_7day_avg) /\ IsNull(q.score_7day_rank)

\* the step is a call of calculate_metrics_for_date(d) that returned normally
RunCompleted(d) ==
    /\ last'.ran # << >> /\ last'.ran[Len(last'.ran)] = d
    /\ last'.completed # << >> /\ last'.completed[Len(last'.completed)] = d

\* the week-over-week fields of row r against the rows prev found for the
\* date 7 days before: None without such a row
WowAgainst(r, prev) ==
    \A i \in DOMAIN wow_fields :
        r[wow_fields[i][2]] =
            IF prev = {} THEN Null
            ELSE calculate_wow_change(r[wow_fields[i][1]],
                                      (CHOOSE q \in prev : TRUE)[wow_fields[i][1]])

\* C6: the previous value of every week-over-week delta computed for date D,
\* per subreddit and global, is the value of the stored row of date D - 7
\* exactly; without such a row all five deltas are None, whatever other rows
\* of earlier dates there are.
C6_PreviousIsSevenDaysBefore ==
    [][\A d \in {today - 7, today - 1, today} :
          RunCompleted(d) =>
            /\ \A r \in {x \in subreddit_metrics' : x.date = d} :
                  WowAgainst(r, {q \in subreddit_metrics :
                                    q.subreddit = r.subreddit /\ q.date = d - 7})
            /\ \A g \in {x \in global_metrics' : x.date = d} :
                  WowAgainst(g, {q \in global_metrics : q.date = d - 7})]_vars

C6_Witness ==
    \E r, q \in subreddit_metrics :
        /\ r.subreddit = q.subreddit /\ r.date = today /\ q.date = today - 1
        /\ ~IsNull(r.posts_7day_avg) /\ ~IsNull(q.posts_7day_avg)
        /\ \A x \in subreddit_metrics : x.date # today - 7
        /\ IsNull(r.posts_wow_change)
        /\ \E g, h \in global_metrics :
              /\ g.date = today /\ h.date = today - 1
              /\ ~IsNull(g.posts_7day_avg) /\ ~IsNull(h.posts_7day_avg)
              /\ IsNull(g.posts_wow_change)

\* C7: calculate_metrics_for_date(D) run a second time, right after a run for
\* D, leaves the SubredditMetrics, GlobalMetrics and MetricsDispersion tables
\* as the first run left them.
C7_SecondRunChangesNothing ==
    [][\A d \in {today - 7, today - 1, today} :
          (/\ last.ran # << >> /\ last.ran[Len(last.ran)] = d
           /\ last.completed # << >> /\ last.completed[Len(last.completed)] = d
           /\ ~last.running
           /\ last'.ran = <<d>> /\ last'.completed = <<d>>)
          => /\ subreddit_metrics' = subreddit_metrics
             /\ global_metrics' = global_metrics
             /\ metrics_dispersion' = metrics_dispersion]_vars

C7_Witness ==
    /\ last.before # << >> /\ last.before[Len(last.before)] = today
    /\ last.ran = <<today>> /\ last.completed = <<today>>
    /\ \E r \in subreddit_metrics : r.date = today /\ r.subscribers_7day_rank = Num(1)
    /\ \E g \in global_metrics : g.date = today
    /\ \E x \in metrics_dispersion :
          x.date = today /\ x.entity_type = "subreddit" /\ ~IsNull(x.std_dev)

\* the arguments main() cannot use: a first argument that is no date, or a
\* backfill count that is no integer
BadArguments(args) ==
    /\ args # << >>
    /\ IF args[1].kind = "flag" /\ Len(args) > 1
       THEN args[2].kind # "int"
       ELSE args[1].kind # "date"

\* C8: when the computation of one subreddit raises during the run for D, the
\* run still persists the SubredditMetrics rows of D of all other subreddits.
C8_OtherSubredditsPersisted ==
    \A p \in last.raising :
        (~last.running /\ \E k \in DOMAIN last.ran : last.ran[k] = p[2]) =>
            \A i \in DOMAIN subreddits :
                subreddits[i] # p[1] =>
                    \E r \in subreddit_metrics :
                        r.subreddit = subreddits[i] /\ r.date = p[2]

\* C9: the command ends with a nonzero exit status exactly when its date
\* argument is malformed or its backfill count is no integer; a computation
\* that raises never changes the exit status.
C9_ExitCode ==
    (last.invoked /\ ~last.running) =>
        (last.exit_code # 0 <=> BadArguments(last.args))

\* C15: a run for D after only the data of the capital entity changed (its
\* snapshots, its posts, its metrics of a week before) stores for D the same
\* ranks for the other entities, the same GlobalMetrics row and the same
\* global-scope MetricsDispersion rows as the run for D before the change.
C15_CapitalChangesNothingElse ==
    [][(/\ RunCompleted(today)
        /\ \E r \in subreddit_metrics : r.date = today)
       => /\ \A r \in subreddit_metrics :
                (r.date = today /\ r.subreddit \notin CapitalNames) =>
                    \E q \in subreddit_metrics' :
                        /\ q.date = today /\ q.subreddit = r.subreddit
                        /\ \A i \in DOMAIN rank_fields :
                              q[rank_fields[i][2]] = r[rank_fields[i][2]]
          /\ {g \in global_metrics' : g.date = today}
                = {g \in global_metrics : g.date = today}
          /\ {x \in metrics_dispersion' : x.date = today /\ x.entity_type = "global"}
                = {x \in metrics_dispersion :
                      x.date = today /\ x.entity_type = "global"}]_vars

C15_Witness ==
    /\ call.fn = "change" /\ call.after = <<today>>
    /\ last.before = <<today>> /\ last.completed = <<today>>
    /\ \E r, q \in subreddit_metrics :
          /\ r.date = today /\ r.subreddit \in CapitalNames
          /\ r.subscribers_7day_avg = Num(9)
          /\ q.date = today /\ q.subreddit \notin CapitalNames
          /\ q.subscribers_7day_rank = Num(1)
    /\ \E g \in global_metrics : g.date = today /\ g.subscribers_7day_avg = Num(2)

\* the sum of a field over a set of rows
RECURSIVE SumOfRows(_, _)
SumOfRows(rows, field) ==
    IF rows = {} THEN Num(0)
    ELSE LET r == CHOOSE x \in rows : TRUE
         IN  RAdd(r[field], SumOfRows(rows \ {r}, field))

\* the SubredditMetrics rows of date d of the entities other than the capital
OtherEntitiesRows(d) ==
    {r \in subreddit_metrics : r.date = d /\ r.subreddit \notin CapitalNames}

\* C16: each of the ten averages of the GlobalMetrics row of D is the
\* arithmetic mean of that average over the SubredditMetrics rows of D of the
\* non-capital entities that have a value, and None when none has.
C16_GlobalIsMeanOfOthers ==
    \A g \in global_metrics : \A f \in AvgFields :
        LET have == {r \in OtherEntitiesRows(g.date) : ~IsNull(r[f])}
        IN  g[f] = IF have = {} THEN Null
                   ELSE RDiv(SumOfRows(have, f), Num(Cardinality(have)))

C16_Witness ==
    \E g \in global_metrics :
        /\ g.date = today
        /\ Cardinality(OtherEntitiesRows(today)) = 2
        /\ \E r \in subreddit_metrics :
              /\ r.date = today /\ r.subreddit \in CapitalNames
              /\ ~IsNull(r.posts_7day_avg)
        /\ \E r, q \in OtherEntitiesRows(today) :
              /\ r.posts_7day_avg = Num(1) /\ IsNull(q.posts_7day_avg)
        /\ g.posts_7day_avg = Num(1)
        /\ IsNull(g.score_7day_avg)

\* C17: subreddits_included of the GlobalMetrics row of D is the number of
\* entities whose values are included in the means of the row: the
\* non-capital entities that contribute a value.
C17_CountsContributors ==
    \A g \in global_metrics :
        g.subreddits_included =
            Cardinality({r \in OtherEntitiesRows(g.date) :
                            \E f \in AvgFields : ~IsNull(r[f])})

\* C18: after a run for D an entity has entity-scope MetricsDispersion rows of
\* D, one for each of the 10 metric names, if it has at least 2
\* SubredditMetrics rows with date in [D-6, D], and none if it has fewer.
C18_EntityDispersionNeedsTwoRows ==
    [][\A d \in {today - 7, today - 1, today} :
          RunCompleted(d) =>
            \A k \in DOMAIN subreddits :
                LET e == subreddits[k]
                    n == Cardinality({r \in subreddit_metrics' :
                            r.subreddit = e /\ d - 6 <= r.date /\ r.date <= d})
                    written == {x \in metrics_dispersion' :
                            /\ x.date = d /\ x.entity_type = "subreddit"
                            /\ x.subreddit = e}
                IN  /\ n >= 2 =>
                          /\ {x.metric_name : x \in written} = Range(METRIC_NAMES)
                          /\ Cardinality(written) = 10
                    /\ n < 2 => written = {}]_vars

C18_Witness ==
    /\ last.completed = <<today - 1, today>> /\ ~last.running
    /\ \E r, q \in subreddit_metrics :
          /\ r.subreddit = "texas" /\ r.date = today
          /\ q.subreddit = "texas" /\ q.date = today - 1
    /\ Cardinality({x \in metrics_dispersion :
          x.date = today /\ x.entity_type = "subreddit" /\ x.subreddit = "texas"}) = 10
    /\ \A x \in metrics_dispersion :
          x.entity_type = "subreddit" => x.date # today - 1

\* C19: backfill_metrics(N) runs calculate_metrics_for_date exactly once for
\* each date from today - N to today, in ascending order, so the run for d
\* comes after the run for d - 7 when both are in the range; a run that raises
\* does not keep the later dates from being run, and every run that does not
\* raise stores the SubredditMetrics rows of its date.
C19_BackfillAscendingOncePerDate ==
    last.invoked =>
        LET N == last.args[2].value
            dates == [k \in 1..(N + 1) |-> today - N + (k - 1)]
        IN  /\ Len(last.ran) <= Len(dates)
            /\ \A k \in DOMAIN last.ran : last.ran[k] = dates[k]
            /\ ~last.running => last.ran = dates
            /\ \A i, j \in DOMAIN last.ran :
                  last.ran[j] = last.ran[i] - 7 => j < i
            /\ last.completed =
                  SelectSeq(last.ran, LAMBDA d :
                      \A p \in last.raising : p[2] # d)
            /\ \A k \in DOMAIN last.completed : \A i \in DOMAIN subreddits :
                  \E r \in subreddit_metrics :
                      r.subreddit = subreddits[i] /\ r.date = last.completed[k]

C19_Witness ==
    /\ last.invoked /\ ~last.running
    /\ last.args[2].value = 7
    /\ last.raising = {<<"texas", today - 3>>}
    /\ Len(last.ran) = 8 /\ Len(last.completed) = 7
    /\ \A r \in subreddit_metrics : r.date # today - 3
    /\ \E r, q \in subreddit_metrics :
          /\ r.subreddit = "texas" /\ r.date = today
          /\ q.subreddit = "texas" /\ q.date = today - 7
          /\ ~IsNull(q.subscribers_7day_avg)
          /\ r.subscribers_wow_change = Num(0)

VotesReturned == call.fn = "calculate_estimated_votes" /\ ret.returned

\* t is round(q): an integer nearest to q, the even one when q is halfway
IsRounded(q, t) ==
    /\ 2 * Abs(t * q[2] - q[1]) <= q[2]
    /\ 2 * Abs(t * q[2] - q[1]) = q[2] => t % 2 = 0

\* C20: calculate_estimated_votes(score, upvote_ratio) returns (None, None)
\* exactly when score is None, upvote_ratio is None or upvote_ratio is 0.5;
\* otherwise, with total_votes = score / (2 * upvote_ratio - 1), it returns
\* up = round(total_votes * upvote_ratio) and
\* down = round(total_votes * (1 - upvote_ratio)), and up + down differs from
\* round(total_votes) by at most 1.
C20_EstimatedVotes ==
    VotesReturned =>
        LET s == call.score
            r == call.upvote_ratio
            undefined == IsNull(s) \/ IsNull(r) \/ r = Rat(1, 2)
        IN  /\ undefined <=> ret.value = <<Null, Null>>
            /\ ~undefined =>
                  LET total_votes == RDiv(s, RSub(RMul(Num(2), r), Num(1)))
                      up == ret.value[1]
                      down == ret.value[2]
                  IN  /\ ~IsNull(up) /\ up[2] = 1
                      /\ ~IsNull(down) /\ down[2] = 1
                      /\ IsRounded(RMul(total_votes, r), up[1])
                      /\ IsRounded(RMul(total_votes, RSub(Num(1), r)), down[1])
                      /\ \A t \in (0 - 8 * MaxScore)..(8 * MaxScore) :
                            IsRounded(total_votes, t) =>
                                Abs(up[1] + down[1] - t) <= 1

C20_Witness ==
    /\ VotesReturned
    /\ call.score = Num(3) /\ call.upvote_ratio = Rat(3, 4)
    /\ ret.value = <<Num(4), Num(2)>>

\* C27: of a list with n >= 2 non-null values calculate_dispersion_stats reads
\* the sorted list only within its range (floor(n * 0.75) <= n - 1), and its
\* result satisfies min_value <= p25 <= median <= p75 <= max_value.
C27_DispersionOrdered ==
    DispersionReturned =>
        LET vals == SelectSeq(call.values, LAMBDA v : ~IsNull(v))
            n == Len(vals)
            d == ret.value
        IN  n >= 2 =>
              /\ (3 * n) \div 4 <= n - 1
              /\ n \div 4 >= 0
              /\ \E i, j \in DOMAIN vals : d.p25 = vals[i] /\ d.p75 = vals[j]
              /\ RLeq(d.min_value, d.p25)
              /\ RLeq(d.p25, d.median)
              /\ RLeq(d.median, d.p75)
              /\ RLeq(d.p75, d.max_value)

C27_Witness ==
    /\ DispersionReturned
    /\ call.values = <<Num(4), Num(1), Num(5), Num(2)>>
    /\ ret.value.min_value = Num(1) /\ ret.value.p25 = Num(2)
    /\ ret.value.median = Num(3) /\ ret.value.p75 = Num(5)
    /\ ret.value.max_value = Num(5)

\* the rows of table t of dates other than d
OtherDates(t, d) == {r \in t : r.date # d}

\* C25: a run of calculate_metrics_for_date(D) creates or modifies only rows
\* of date D in SubredditMetrics, GlobalMetrics and MetricsDispersion; the rows
\* of every other date, and the Subreddit, SubredditDailyStats and Post rows,
\* stay as they were.  So a None week-over-week delta stored at D for want of
\* a D - 7 row stays None when D - 7 is run afterwards.
C25_OnlyRowsOfTheDate ==
    [][/\ subreddits' = subreddits /\ snapshots' = snapshots /\ posts' = posts
       /\ last'.ran = << >> =>
             /\ subreddit_metrics' = subreddit_metrics
             /\ global_metrics' = global_metrics
             /\ metrics_dispersion' = metrics_dispersion
       /\ \A d \in {today - 7, today - 1, today} :
             RunCompleted(d) =>
               /\ OtherDates(subreddit_metrics', d) = OtherDates(subreddit_metrics, d)
               /\ OtherDates(global_metrics', d) = OtherDates(global_metrics, d)
               /\ OtherDates(metrics_dispersion', d) = OtherDates(metrics_dispersion, d)]_vars

C25_Witness ==
    /\ last.ran = <<today - 7>> /\ last.completed = <<today - 7>>
    /\ \E k \in DOMAIN last.before : last.before[k] = today
    /\ \E r, q \in subreddit_metrics :
          /\ r.subreddit = q.subreddit /\ r.date = today /\ q.date = today - 7
          /\ ~IsNull(r.posts_7day_avg) /\ ~IsNull(q.posts_7day_avg)
          /\ q.posts_7day_avg # Num(0)
          /\ IsNull(r.posts_wow_change)
    /\ \E g, h \in global_metrics :
          /\ g.date = today /\ h.date = today - 7
          /\ ~IsNull(g.posts_7day_avg) /\ ~IsNull(h.posts_7day_avg)
          /\ IsNull(g.posts_wow_change)
    /\ \E m \in metrics_dispersion : m.date = today

\* C28: a run for D with no subreddit other than D.C. (none at all, or D.C.
\* alone) writes no GlobalMetrics row, and still leaves exactly one global
\* MetricsDispersion row of date D for each of the 10 metric names, its six
\* statistics None.
C28_NoGlobalRowWithoutOthers ==
    [][\A d \in {today - 7, today - 1, today} :
          (RunCompleted(d) /\ \A i \in DOMAIN subreddits : subreddits[i] \in CapitalNames)
          => /\ global_metrics' = global_metrics
             /\ LET rows == {m \in metrics_dispersion' :
                                m.date = d /\ m.entity_type = "global"}
                IN  /\ Cardinality(rows) = 10
                    /\ \A i \in DOMAIN METRIC_NAMES :
                          \E m \in rows :
                             /\ m.metric_name = METRIC_NAMES[i]
                             /\ m.subreddit = NoSubreddit
                             /\ IsNull(m.median) /\ IsNull(m.std_dev)
                             /\ IsNull(m.min_value) /\ IsNull(m.max_value)
                             /\ IsNull(m.p25) /\ IsNull(m.p75)]_vars

C28_Witness ==
    /\ subreddits = <<"washingtondc">>
    /\ last.completed = <<today>>
    /\ \E r \in subreddit_metrics :
          r.date = today /\ r.subreddit = "washingtondc" /\ ~IsNull(r.posts_7day_avg)
    /\ global_metrics = {}
    /\ Cardinality({m \in metrics_dispersion :
                       m.date = today /\ m.entity_type = "global" /\ IsNull(m.max_value)})
          = 10

\* C26: the subreddit-scope dispersion of D is computed from the
\* SubredditMetrics table as step 3 of the same run has left it, so the values
\* include the averages just computed for D: a subreddit with exactly one
\* earlier row in [D-6, D-1] and none of D reaches 2 rows and gets its 10
\* dispersion rows on the first run for D, each spanning both rows' values.
C26_DispersionIncludesOwnRow ==
    [][\A d \in {today - 7, today - 1, today} :
          RunCompleted(d) =>
            \A k \in DOMAIN subreddits :
                LET e == subreddits[k]
                    earlier == {r \in subreddit_metrics :
                                  r.subreddit = e /\ d - 6 <= r.date /\ r.date <= d - 1}
                    first == \A r \in subreddit_metrics : ~(r.subreddit = e /\ r.date = d)
                    own == {r \in subreddit_metrics' : r.subreddit = e /\ r.date = d}
                    written == {x \in metrics_dispersion' :
                                  /\ x.date = d /\ x.entity_type = "subreddit"
                                  /\ x.subreddit = e}
                IN  /\ Cardinality(own) = 1
                    /\ \A x \in written : \A r \in own :
                          LET v == r[metric_to_field[x.metric_name]]
                          IN  ~IsNull(v) => RLeq(x.min_value, v) /\ RLeq(v, x.max_value)
                    /\ (Cardinality(earlier) = 1 /\ first) =>
                          /\ Cardinality(written) = 10
                          /\ \A x \in written : \A r \in own : \A q \in earlier :
                                LET f == metric_to_field[x.metric_name]
                                IN  (~IsNull(r[f]) /\ ~IsNull(q[f])) =>
                                       /\ {x.min_value, x.max_value} = {r[f], q[f]}
                                       /\ x.median = RDiv(RAdd(r[f], q[f]), Num(2))]_vars

C26_Witness ==
    /\ last.completed = <<today - 1, today>> /\ last.before = << >>
    /\ \E r, q \in subreddit_metrics :
          /\ r.subreddit = "texas" /\ r.date = today
          /\ q.subreddit = "texas" /\ q.date = today - 1
          /\ ~IsNull(r.posts_7day_avg) /\ ~IsNull(q.posts_7day_avg)
          /\ RLess(q.posts_7day_avg, r.posts_7day_avg)
          /\ \E x \in metrics_dispersion :
                /\ x.date = today /\ x.entity_type = "subreddit" /\ x.subreddit = "texas"
                /\ metric_to_field[x.metric_name] = "posts_7day_avg"
                /\ x.max_value = r.posts_7day_avg /\ x.min_value = q.posts_7day_avg

\* C22: in a backfill over D-2, D-1, D the week-over-week deltas stored at D
\* are computed against the row of D - 7 that was there before the backfill
\* began; without one they are all None, the rows of D-2 and D-1 written by
\* the same backfill never serving as the previous value.
C22_BackfillComparesWithWeekBefore ==
    [][(RunCompleted(today) /\ last'.ran = <<today - 2, today - 1, today>>) =>
          LET existed == \E k \in DOMAIN last.before : last.before[k] = today - 7
          IN  /\ \A r \in {x \in subreddit_metrics' : x.date = today} :
                    /\ WowAgainst(r, IF existed
                                     THEN {q \in subreddit_metrics :
                                             q.subreddit = r.subreddit /\ q.date = today - 7}
                                     ELSE {})
                    /\ \E q \in subreddit_metrics :
                          q.subreddit = r.subreddit /\ q.date = today - 1
                    /\ \E q \in subreddit_metrics :
                          q.subreddit = r.subreddit /\ q.date = today - 2
              /\ \A g \in {x \in global_metrics' : x.date = today} :
                    WowAgainst(g, IF existed
                                  THEN {q \in global_metrics : q.date = today - 7}
                                  ELSE {})
              /\ existed \/ \A r \in subreddit_metrics : r.date # today - 7]_vars

C22_Witness ==
    /\ last.ran = <<today - 2, today - 1, today>> /\ last.completed = last.ran
    /\ last.before = <<today - 7>>
    /\ \E r, q, p \in subreddit_metrics :
          /\ r.subreddit = q.subreddit /\ r.date = today /\ q.date = today - 7
          /\ p.subreddit = r.subreddit /\ p.date = today - 1
          /\ ~IsNull(p.posts_7day_avg)
          /\ ~IsNull(r.posts_wow_change) /\ r.posts_wow_change # Num(0)
          /\ r.posts_wow_change = calculate_wow_change(r.posts_7day_avg, q.posts_7day_avg)

\* the rows of table t of the given scope
OfScope(t, scope) == {x \in t : x.entity_type = scope}

\* C21: within a run of calculate_metrics_for_date(D) the phases come in the
\* order: averages and week-over-week deltas of every subreddit, ranks,
\* SubredditMetrics rows, GlobalMetrics row, global dispersion, subreddit
\* dispersion.  No SubredditMetrics row is written before the averages of all
\* subreddits have been computed and ranked, and the SubredditMetrics rows
\* of D once step 3 is over are those of the entries and ranks of steps 1, 2.
C21_PhasesInOrder ==
    [][(InRun /\ call'.fn = call.fn) =>
          LET d == call.calc_date
          IN  /\ call'.pc >= call.pc /\ call'.calc_date = d
              /\ ret'.subreddit_metrics_data # ret.subreddit_metrics_data => call.pc = 1
              /\ ret'.all_ranks # ret.all_ranks =>
                    /\ call.pc = 2
                    /\ Len(ret.subreddit_metrics_data) = Len(subreddits)
              /\ subreddit_metrics' # subreddit_metrics =>
                    /\ call.pc = 3
                    /\ Len(ret.subreddit_metrics_data) = Len(subreddits)
                    /\ DOMAIN ret.all_ranks = RankFields
                    /\ \A r \in subreddit_metrics : r.date = d =>
                          \E k \in 1..(call.i - 1) : subreddits[k] = r.subreddit
              /\ global_metrics' # global_metrics =>
                    /\ call.pc = 4
                    /\ \A k \in DOMAIN subreddits :
                          \E r \in subreddit_metrics :
                             r.subreddit = subreddits[k] /\ r.date = d
              /\ OfScope(metrics_dispersion', "global")
                    # OfScope(metrics_dispersion, "global") => call.pc = 5
              /\ OfScope(metrics_dispersion', "subreddit")
                    # OfScope(metrics_dispersion, "subreddit") =>
                    /\ call.pc = 6
                    /\ \E g \in OfScope(metrics_dispersion, "global") : g.date = d
              /\ call'.pc = 4 /\ call.pc = 3 =>
                    {r \in subreddit_metrics' : r.date = d}
                       = Step3({}, ret.subreddit_metrics_data, ret.all_ranks, d)]_vars

C21_Witness ==
    /\ InRun /\ call.calc_date = today /\ call.pc = 3 /\ call.i = 2
    /\ subreddits = <<"texas", "WashingtonDC">>
    /\ Len(ret.subreddit_metrics_data) = 2
    /\ \E r \in subreddit_metrics :
          r.date = today /\ r.subreddit = "texas" /\ r.posts_7day_rank = Num(1)
    /\ \A r \in subreddit_metrics : r.date = today => r.subreddit = "texas"
    /\ \A g \in global_metrics : g.date # today
    /\ \A x \in metrics_dispersion : x.date # today

\* C23: after any sequence of collect_daily_snapshot runs, in normal mode and
\* in test mode with any target date and subreddit, there is at most one
\* SubredditDailyStats row per subreddit and day of creation.
C23_OneSnapshotPerDay ==
    \A i, j \in DOMAIN snapshots :
        (/\ snapshots[i].subreddit = snapshots[j].subreddit
         /\ snapshots[i].date_created = snapshots[j].date_created) => i = j

\* a step that is a run of the collector, and one that is a call of
\* calculate_subreddit_rolling_stats
CollectStep ==
    call'.fn = "collect_engagement_for_three_day_old_posts" /\ today' = today

StatsStep ==
    call'.fn = "calculate_subreddit_rolling_stats" /\ ret'.returned /\ today' = today

\* C24: once a post has engagement_collected true and both estimates, no run
\* of collect_engagement_for_three_day_old_posts or of backfill_post_votes, in
\* any order and number, changes estimated_upvotes or estimated_downvotes.
C24_EstimatesFrozen ==
    [][\A i \in DOMAIN posts :
          (/\ posts[i].engagement_collected
           /\ ~IsNull(posts[i].estimated_upvotes)
           /\ ~IsNull(posts[i].estimated_downvotes))
          => /\ posts'[i].estimated_upvotes = posts[i].estimated_upvotes
             /\ posts'[i].estimated_downvotes = posts[i].estimated_downvotes]_vars

C24_Witness ==
    /\ call.fn = "backfill_post_votes"
    /\ \E i, j \in DOMAIN posts :
          /\ posts[i].engagement_collected /\ ~posts[i].is_removed
          /\ posts[i].score = Num(3) /\ posts[i].upvote_ratio = Rat(1, 4)
          /\ posts[i].estimated_upvotes = Num(0 - 2)
          /\ posts[i].estimated_downvotes = Num(0 - 4)
          /\ posts[j].is_removed /\ posts[j].estimated_upvotes = Num(0)

\* C29: collect_engagement_for_three_day_old_posts selects exactly the posts
\* with engagement_collected false whose created_local is the current UTC date
\* less 3 days; it sets engagement_collected in the success and in the removed
\* branch, so it updates a post at most once; a post whose fetch raises on its
\* day + 3 keeps engagement_collected false, is selected by no run of a later
\* day, and enters no engagement average.
C29_FailedFetchLeavesUncollected ==
    [][/\ CollectStep =>
             \A i \in DOMAIN posts :
                LET selected == call'.fetched[i] # NotFetched
                    kind == call'.fetched[i].kind
                IN  /\ selected <=> /\ ~posts[i].engagement_collected
                                    /\ posts[i].created_local = today - 3
                                    /\ posts[i].created_local_time = 0
                    /\ kind \in {"ok", "removed"} => posts'[i].engagement_collected
                    /\ posts[i].engagement_collected => posts'[i] = posts[i]
                    /\ posts[i].created_local < today - 3 => ~selected
                    /\ kind = "fetch_error" =>
                          /\ posts'[i] = posts[i]
                          /\ ~posts'[i].engagement_collected
       /\ (/\ StatsStep
           /\ \A i \in DOMAIN posts : ~posts[i].engagement_collected) =>
                 /\ IsNull(ret'.value.score_7day_avg)
                 /\ IsNull(ret'.value.score_30day_avg)
                 /\ IsNull(ret'.value.comments_7day_avg)
                 /\ IsNull(ret'.value.comments_30day_avg)
                 /\ IsNull(ret'.value.upvotes_7day_avg)
                 /\ IsNull(ret'.value.upvotes_30day_avg)]_vars

\* the posts of entity e that the collector marked removed, and the other
\* collected posts with a value of the field, of created_local in [lo, hi]
RemovedIn(e, lo, hi) == {i \in CollectedIn(e, lo, hi) : posts[i].is_removed}

KeptIn(e, lo, hi, field) ==
    {i \in CollectedIn(e, lo, hi) : ~posts[i].is_removed /\ ~IsNull(posts[i][field])}

\* the average of the field with the removed posts as rows of value 0
AverageWithRemoved(e, lo, hi, field) ==
    LET removed == RemovedIn(e, lo, hi)
        kept == KeptIn(e, lo, hi, field)
    IN  IF removed \cup kept = {} THEN Null
        ELSE RDiv(SumOver(posts, kept, field),
                  Num(Cardinality(kept) + Cardinality(removed)))

\* C30: a post found removed by collect_engagement_for_three_day_old_posts is
\* stored with is_removed and engagement_collected true and with score,
\* num_comments, estimated_upvotes and estimated_downvotes 0; the rolling
\* averages do not filter on is_removed, so it is a row of value 0, in the
\* sum and in the count, of the score, comments and upvotes averages of every
\* window that contains its created_local.
C30_RemovedCountsAsZero ==
    [][/\ CollectStep =>
             \A i \in DOMAIN posts :
                call'.fetched[i].kind = "removed" =>
                   /\ posts'[i].is_removed /\ posts'[i].engagement_collected
                   /\ posts'[i].score = Num(0) /\ posts'[i].num_comments = Num(0)
                   /\ posts'[i].estimated_upvotes = Num(0)
                   /\ posts'[i].estimated_downvotes = Num(0)
       /\ StatsStep =>
             LET e == call'.subreddit
                 d == call'.calc_date
                 v == ret'.value
             IN  /\ v.score_7day_avg = AverageWithRemoved(e, d - 9, d - 3, "score")
                 /\ v.comments_7day_avg
                       = AverageWithRemoved(e, d - 9, d - 3, "num_comments")
                 /\ v.upvotes_7day_avg
                       = AverageWithRemoved(e, d - 9, d - 3, "estimated_upvotes")
                 /\ v.score_30day_avg = AverageWithRemoved(e, d - 32, d - 3, "score")
                 /\ v.comments_30day_avg
                       = AverageWithRemoved(e, d - 32, d - 3, "num_comments")
                 /\ v.upvotes_30day_avg
                       = AverageWithRemoved(e, d - 32, d - 3, "estimated_upvotes")]_vars

C30_Witness ==
    /\ StatsReturned /\ call.calc_date = today
    /\ \E i, j \in DOMAIN posts :
          /\ posts[i].is_removed /\ posts[i].created_local = today - 3
          /\ posts[j].engagement_collected /\ ~posts[j].is_removed
          /\ posts[j].score = Num(6) /\ posts[j].estimated_upvotes = Num(9)
          /\ posts[j].created_local = today - 4
    /\ ret.value.score_7day_avg = Num(3)
    /\ ret.value.comments_7day_avg = Num(1)
    /\ ret.value.upvotes_7day_avg = Rat(9, 2)

====
